---- MODULE Spec2Model ----
(***************************************************************************)
(* OxideVault: the Minecraft Server List Ping wire codec and framing       *)
(* (src/mc_server/protocol.rs, src/mc_server.rs) and the ping exchange     *)
(* ping_server (src/mc_server/mod.rs, src/mc_server.rs); the status        *)
(* document and its deserialization; calls of ping_server at the same      *)
(* time; the /online and /backup commands (src/commands) and the player    *)
(* repository (src/database.rs).                                           *)
(*                                                                         *)
(* Machine words.  TLC integers are 32-bit, so an i32 is the integer it    *)
(* denotes and a u32 is carried as the i32 with the same bit pattern; the  *)
(* operators below act on that bit pattern (two's complement).             *)
(***************************************************************************)
EXTENDS Integers, Sequences, FiniteSets, TLC

-----------------------------------------------------------------------------
(* Bounds of the model *)

\* every i32 in -MaxSmall..MaxSmall is an input of write_varint
MaxSmall == 6
\* longest byte slice handed to the slice decoders
MaxSliceLen == 6
\* longest string (in chars) handed to write_string
MaxChars == 2
\* bytes after which the model stops following a write_varint loop
MaxBuf == 7
\* most bytes a peer writes to a connection byte by byte
MaxStream == 6
\* longest of the short payloads handed to send_packet
MaxPayload == 2
\* most bytes of a packet that a failing write_all still gets out
MaxCut == 3
\* a read returns 1..MaxChunk of the bytes waiting, or all that it can take
MaxChunk == 2

\* ping_server is called at most MaxCalls times
MaxCalls == 2

\* ping_server calls running at the same time
MaxPings == 2

\* turns of other tasks on the event loop while /online is handled
MaxOthers == 2

\* invocations of /backup, and moves of the clock while they run
MaxInvocations == 2
MaxTicks == 4

\* calls made on the player repository
MaxRepoCalls == 3

-----------------------------------------------------------------------------
(* 32-bit words *)

I32Min == -2147483647 - 1
I32Max == 2147483647

RECURSIVE BitAnd(_, _)
\* a & b on two's-complement integers
BitAnd(a, b) ==
    IF a = 0 \/ b = 0 THEN 0
    ELSE IF a = -1 THEN b
    ELSE IF b = -1 THEN a
    ELSE 2 * BitAnd(a \div 2, b \div 2)
         + (IF a % 2 = 1 /\ b % 2 = 1 THEN 1 ELSE 0)

RECURSIVE BitOr(_, _)
\* a | b on two's-complement integers
BitOr(a, b) ==
    IF a = 0 THEN b
    ELSE IF b = 0 THEN a
    ELSE IF a = -1 \/ b = -1 THEN -1
    ELSE 2 * BitOr(a \div 2, b \div 2)
         + (IF a % 2 = 1 \/ b % 2 = 1 THEN 1 ELSE 0)

\* x << s on an i32, 0 <= s < 32: the bits shifted past bit 31 are dropped
Shl32(x, s) ==
    IF s = 0 THEN x
    ELSE LET half == 2 ^ (31 - s)
             low  == x % half
             top  == (x \div half) % 2
         IN  IF top = 1 THEN (low * (2 ^ s) - 2 ^ 30) - 2 ^ 30
             ELSE low * (2 ^ s)

\* x >> s on a u32 (logical), 1 <= s < 32
Lshr32(x, s) ==
    IF x >= 0 THEN x \div (2 ^ s)
    ELSE ((x \div (2 ^ s)) + 2 ^ (31 - s)) + 2 ^ (31 - s)

\* x >> s on an i32 (arithmetic: the sign bit is copied in)
Ashr32(x, s) == x \div (2 ^ s)

-----------------------------------------------------------------------------
(* io::Result values *)

NoVal == <<>>

Ok(v) == [tag |-> "Ok", val |-> v, kind |-> "", msg |-> ""]

Err(k, m) == [tag |-> "Err", val |-> NoVal, kind |-> k, msg |-> m]

Panic(m) == [tag |-> "Panic", val |-> NoVal, kind |-> "panic", msg |-> m]

\* the errors the codec constructs
VarIntTooLarge == Err("InvalidData", "VarInt is too big")

UnexpectedEndOfData ==
    Err("UnexpectedEof", "Unexpected end of data while reading VarInt")

TruncatedString == Err("UnexpectedEof", "String length exceeds data size")

-----------------------------------------------------------------------------
(* write_varint *)

\* write_varint_iter that never sets the continuation bit
write_varint_iter_no_flag(value) ==
    LET low  == BitAnd(value, 127)
        rest == Lshr32(value, 7)
    IN  [temp |-> low, value |-> rest, again |-> rest # 0]

\* one pass of the loop of protocol.rs write_varint, value being the u32 of
\* `value as u32`: the byte pushed, the value left, whether the loop goes on
write_varint_iter(value) ==
    LET low  == BitAnd(value, 127)
        rest == Lshr32(value, 7)
    IN  [temp  |-> IF rest # 0 THEN BitOr(low, 128) ELSE low,
         value |-> rest,
         again |-> rest # 0]

\* one pass of the loop of mc_server.rs write_varint: value stays an i32,
\* so >>= 7 is an arithmetic shift
legacy_write_varint_iter(value) ==
    LET low  == BitAnd(value, 127)
        rest == Ashr32(value, 7)
    IN  [temp  |-> IF rest # 0 THEN BitOr(low, 128) ELSE low,
         value |-> rest,
         again |-> rest # 0]

\* protocol.rs write_varint(buf, value): buf with the VarInt of value appended
\* (the loop runs on [buf, value], value being `value as u32`)
write_varint(buf, value) ==
    LET loop[st \in [buf : Seq(Int), value : Int]] ==
            LET it == write_varint_iter(st.value)
            IN  IF it.again
                THEN loop[[buf |-> Append(st.buf, it.temp), value |-> it.value]]
                ELSE Append(st.buf, it.temp)
    IN  loop[[buf |-> buf, value |-> value]]

-----------------------------------------------------------------------------
(* read_varint_from_slice *)

\* process_varint_byte without the `& 0x7F` on the byte
process_varint_byte_no_mask(byte, result, shift) ==
    LET acc == BitOr(result, Shl32(byte, shift))
    IN  IF BitAnd(byte, 128) = 0
        THEN [st |-> "done", result |-> acc, shift |-> shift, err |-> Ok(NoVal)]
        ELSE IF shift + 7 >= 35
        THEN [st |-> "err", result |-> acc, shift |-> shift + 7,
              err |-> VarIntTooLarge]
        ELSE [st |-> "more", result |-> acc, shift |-> shift + 7,
              err |-> Ok(NoVal)]

\* process_varint_byte that gives up one byte late (shift >= 42)
process_varint_byte_late(byte, result, shift) ==
    LET acc == BitOr(result, Shl32(BitAnd(byte, 127), shift % 32))
    IN  IF BitAnd(byte, 128) = 0
        THEN [st |-> "done", result |-> acc, shift |-> shift, err |-> Ok(NoVal)]
        ELSE IF shift + 7 >= 42
        THEN [st |-> "err", result |-> acc, shift |-> shift + 7,
              err |-> VarIntTooLarge]
        ELSE [st |-> "more", result |-> acc, shift |-> shift + 7,
              err |-> Ok(NoVal)]

\* process_varint_byte(byte, &mut result, &mut shift): Ok(true) is "done",
\* Ok(false) is "more", Err is "err"; result and shift as left behind
process_varint_byte(byte, result, shift) ==
    LET acc == BitOr(result, Shl32(BitAnd(byte, 127), shift))
    IN  IF BitAnd(byte, 128) = 0
        THEN [st |-> "done", result |-> acc, shift |-> shift, err |-> Ok(NoVal)]
        ELSE IF shift + 7 >= 35
        THEN [st |-> "err", result |-> acc, shift |-> shift + 7,
              err |-> VarIntTooLarge]
        ELSE [st |-> "more", result |-> acc, shift |-> shift + 7,
              err |-> Ok(NoVal)]

\* the outcome of a slice decode, with the number of bytes it read
Decoded(r, pos) == [ret |-> r, consumed |-> pos]

\* slice_exhausted that lets the index run one past the end
slice_exhausted_off_by_one(pos, len) == pos > len

\* the bounds check at the head of read_varint_from_slice's loop
slice_exhausted(pos, len) == pos >= len

\* read_varint_from_slice(data): Ok((value, bytes consumed)) or the error
\* (the loop runs on [result, shift, pos])
read_varint_from_slice(data) ==
    LET loop[st \in [result : Int, shift : Nat, pos : Nat]] ==
            IF slice_exhausted(st.pos, Len(data))
            THEN Decoded(UnexpectedEndOfData, st.pos)
            ELSE IF st.pos >= Len(data)
            THEN Decoded(Panic("index out of bounds"), st.pos)
            ELSE LET p == process_varint_byte(data[st.pos + 1], st.result, st.shift)
                 IN  CASE p.st = "done" ->
                            Decoded(Ok(<<p.result, st.pos + 1>>), st.pos + 1)
                       [] p.st = "err" -> Decoded(p.err, st.pos + 1)
                       [] OTHER ->
                            loop[[result |-> p.result, shift |-> p.shift,
                                  pos |-> st.pos + 1]]
    IN  loop[[result |-> 0, shift |-> 0, pos |-> 0]]

-----------------------------------------------------------------------------
(* Strings: a String is the sequence of its chars (Unicode scalar values) *)

ReplacementChar == 65533

\* the UTF-8 bytes of one char
encode_utf8(c) ==
    IF c < 128 THEN <<c>>
    ELSE IF c < 2048 THEN <<192 + (c \div 64), 128 + (c % 64)>>
    ELSE IF c < 65536
    THEN <<224 + (c \div 4096), 128 + ((c \div 64) % 64), 128 + (c % 64)>>
    ELSE <<240 + (c \div 262144), 128 + ((c \div 4096) % 64),
           128 + ((c \div 64) % 64), 128 + (c % 64)>>

\* s.as_bytes(): the UTF-8 encoding of s
as_bytes(s) ==
    LET part[lo \in 1..(Len(s) + 1), hi \in 0..Len(s)] ==
            IF lo > hi THEN <<>>
            ELSE IF lo = hi THEN encode_utf8(s[lo])
            ELSE part[lo, (lo + hi) \div 2] \o part[((lo + hi) \div 2) + 1, hi]
    IN  part[1, Len(s)]

\* s.len() counted in chars instead of bytes
str_len_chars(s) == Len(s)

\* s.len(): the length of s in bytes
str_len(s) == Len(as_bytes(s))

\* write_string(buf, s): buf with the protocol string of s appended
write_string(buf, s) == write_varint(buf, str_len(s)) \o as_bytes(s)

\* core::str's UTF8_CHAR_WIDTH: the length a first byte announces, 0 if none
utf8_char_width(b) ==
    IF b < 128 THEN 1
    ELSE IF b >= 194 /\ b <= 223 THEN 2
    ELSE IF b >= 224 /\ b <= 239 THEN 3
    ELSE IF b >= 240 /\ b <= 244 THEN 4
    ELSE 0

\* the byte at index i, 0 past the end (Utf8Chunks' safe_get)
safe_get(bytes, i) == IF i < Len(bytes) THEN bytes[i + 1] ELSE 0

is_cont(b) == b >= 128 /\ b <= 191

\* whether b1 may follow first byte b0 of a 3- or 4-byte sequence
second_ok(b0, b1) ==
    \/ b0 = 224 /\ b1 >= 160 /\ b1 <= 191
    \/ b0 >= 225 /\ b0 <= 236 /\ is_cont(b1)
    \/ b0 = 237 /\ b1 >= 128 /\ b1 <= 159
    \/ b0 >= 238 /\ b0 <= 239 /\ is_cont(b1)
    \/ b0 = 240 /\ b1 >= 144 /\ b1 <= 191
    \/ b0 >= 241 /\ b0 <= 243 /\ is_cont(b1)
    \/ b0 = 244 /\ b1 >= 128 /\ b1 <= 143

\* the char that starts at index i and the index after it; an invalid
\* sequence gives U+FFFD and ends where the decoder stopped matching
next_char(bytes, i) ==
    LET b0 == bytes[i + 1]
        b1 == safe_get(bytes, i + 1)
        b2 == safe_get(bytes, i + 2)
        b3 == safe_get(bytes, i + 3)
        w  == utf8_char_width(b0)
        bad(n) == [char |-> ReplacementChar, next |-> i + n]
    IN  CASE w = 1 -> [char |-> b0, next |-> i + 1]
          [] w = 2 -> IF is_cont(b1)
                      THEN [char |-> (b0 - 192) * 64 + (b1 - 128), next |-> i + 2]
                      ELSE bad(1)
          [] w = 3 -> IF ~second_ok(b0, b1) THEN bad(1)
                      ELSE IF ~is_cont(b2) THEN bad(2)
                      ELSE [char |-> (b0 - 224) * 4096 + (b1 - 128) * 64
                                     + (b2 - 128),
                            next |-> i + 3]
          [] w = 4 -> IF ~second_ok(b0, b1) THEN bad(1)
                      ELSE IF ~is_cont(b2) THEN bad(2)
                      ELSE IF ~is_cont(b3) THEN bad(3)
                      ELSE [char |-> (b0 - 240) * 262144 + (b1 - 128) * 4096
                                     + (b2 - 128) * 64 + (b3 - 128),
                            next |-> i + 4]
          [] OTHER -> bad(1)

\* String::from_utf8_lossy(bytes).to_string()
\* (the chars are decoded in runs of 16, one run after the other)
from_utf8_lossy(bytes) ==
    LET run[st \in [i : 0..(Len(bytes) + 3), n : 0..16, chars : Seq(Int)]] ==
            IF st.i >= Len(bytes) \/ st.n = 16 THEN st
            ELSE LET c == next_char(bytes, st.i)
                 IN  run[[i |-> c.next, n |-> st.n + 1,
                          chars |-> Append(st.chars, c.char)]]
        from[i \in 0..(Len(bytes) + 3)] ==
            IF i >= Len(bytes) THEN <<>>
            ELSE LET r == run[[i |-> i, n |-> 0, chars |-> <<>>]]
                 IN  r.chars \o from[r.i]
    IN  from[0]

-----------------------------------------------------------------------------
(* read_string *)

\* A usize is 64 bits wide, carried as four 16-bit limbs, lowest first.
\* `n as usize` of an i32: sign-extended, so a negative n is 2^64 + n
as_usize(n) ==
    <<n % 65536, (n \div 65536) % 65536,
      IF n < 0 THEN 65535 ELSE 0, IF n < 0 THEN 65535 ELSE 0>>

\* a + b on usize: the wrapped sum, and whether the addition overflowed
usize_add(a, b) ==
    LET s1 == a[1] + b[1]
        s2 == a[2] + b[2] + (s1 \div 65536)
        s3 == a[3] + b[3] + (s2 \div 65536)
        s4 == a[4] + b[4] + (s3 \div 65536)
    IN  [sum |-> <<s1 % 65536, s2 % 65536, s3 % 65536, s4 % 65536>>,
         overflow |-> s4 >= 65536]

\* a > b on usize
usize_gt(a, b) ==
    \E i \in 1..4 : a[i] > b[i] /\ \A j \in (i + 1)..4 : a[j] = b[j]

\* the usize of a length or index below 2^31, and back
usize_of(n) == as_usize(n)

usize_index(a) == a[2] * 65536 + a[1]

\* &data[start..end] with usize bounds: panics unless start <= end <= len
slice_range(data, start, end) ==
    IF usize_gt(start, end) THEN Panic("slice index starts after its end")
    ELSE IF usize_gt(end, usize_of(Len(data)))
    THEN Panic("range end index out of range")
    ELSE Ok(SubSeq(data, usize_index(start) + 1, usize_index(end)))

\* the length test of read_string off by one: end > len + 1
length_exceeds_lax(end, len) == usize_gt(end, usize_add(len, usize_of(1)).sum)

\* read_string's test `offset + len as usize > data.len()`
length_exceeds(end, len) == usize_gt(end, len)

\* read_string(data); overflow_checks is the build's overflow-checks setting
\* (on in debug builds, off in release builds, where the sum wraps)
read_string(data, overflow_checks) ==
    LET d == read_varint_from_slice(data).ret
    IN  IF d.tag # "Ok" THEN d
        ELSE LET len    == d.val[1]
                 offset == usize_of(d.val[2])
                 add    == usize_add(offset, as_usize(len))
             IN  IF add.overflow /\ overflow_checks
                 THEN Panic("attempt to add with overflow")
                 ELSE IF length_exceeds(add.sum, usize_of(Len(data)))
                 THEN TruncatedString
                 ELSE LET sl == slice_range(data, offset, add.sum)
                      IN  IF sl.tag # "Ok" THEN sl
                          ELSE Ok(from_utf8_lossy(sl.val))

-----------------------------------------------------------------------------
(* Socket addresses: `address.to_socket_addrs()` on a &str, and the text   *)
(* and bytes ping_server makes of the SocketAddr it gets.  Text is the     *)
(* sequence of its chars.                                                  *)

Colon == 58

Dot == 46

Plus == 43

IsDigit(c) == c >= 48 /\ c <= 57

\* str::rfind(':'): the index of the last c in s, 0 when there is none
rfind(s, c) ==
    LET at == {i \in 1..Len(s) : s[i] = c}
    IN  IF at = {} THEN 0 ELSE CHOOSE i \in at : \A j \in at : j <= i

\* the decimal digits of s as a number, -1 when s has another char or the
\* number passes max
digits_value(s, max) ==
    LET val[i \in 0..Len(s)] ==
            IF i = 0 THEN 0
            ELSE IF val[i - 1] = -1 \/ ~IsDigit(s[i]) THEN -1
            ELSE IF val[i - 1] * 10 + (s[i] - 48) > max THEN -1
            ELSE val[i - 1] * 10 + (s[i] - 48)
    IN  val[Len(s)]

U16Max == 65535

\* str::parse::<u16>(): an optional '+', then one digit at least
parse_u16(s) ==
    LET digits == IF s # <<>> /\ s[1] = Plus THEN Tail(s) ELSE s
        v      == digits_value(digits, U16Max)
    IN  IF digits = <<>> \/ v = -1 THEN [ok |-> FALSE, val |-> 0]
        ELSE [ok |-> TRUE, val |-> v]

\* the port of a SocketAddr literal: digits only
parse_port(s) ==
    LET v == digits_value(s, U16Max)
    IN  IF s = <<>> \/ v = -1 THEN [ok |-> FALSE, val |-> 0]
        ELSE [ok |-> TRUE, val |-> v]

\* one octet of an Ipv4Addr literal: 1 to 3 digits, no leading zero, <= 255
parse_octet(s) ==
    LET v == digits_value(s, 255)
    IN  IF s = <<>> \/ Len(s) > 3 \/ v = -1 \/ (Len(s) > 1 /\ s[1] = 48)
        THEN -1 ELSE v

\* str::parse::<Ipv4Addr>(): four octets with dots between them
parse_ipv4(s) ==
    LET dots == {i \in 1..Len(s) : s[i] = Dot}
        d1   == CHOOSE i \in dots : \A j \in dots : i <= j
        d3   == CHOOSE i \in dots : \A j \in dots : j <= i
        d2   == CHOOSE i \in dots : i # d1 /\ i # d3
        o    == <<parse_octet(SubSeq(s, 1, d1 - 1)),
                  parse_octet(SubSeq(s, d1 + 1, d2 - 1)),
                  parse_octet(SubSeq(s, d2 + 1, d3 - 1)),
                  parse_octet(SubSeq(s, d3 + 1, Len(s)))>>
    IN  IF Cardinality(dots) # 3 THEN [ok |-> FALSE, octets |-> <<0, 0, 0, 0>>]
        ELSE IF \E i \in 1..4 : o[i] = -1
        THEN [ok |-> FALSE, octets |-> <<0, 0, 0, 0>>]
        ELSE [ok |-> TRUE, octets |-> o]

NoAddr == [ip |-> <<0, 0, 0, 0>>, port |-> 0]

\* str::parse::<SocketAddr>() for "a.b.c.d:port"
parse_socket_addr(s) ==
    LET c    == rfind(s, Colon)
        ip   == parse_ipv4(SubSeq(s, 1, c - 1))
        port == parse_port(SubSeq(s, c + 1, Len(s)))
    IN  IF c = 0 THEN [ok |-> FALSE, addr |-> NoAddr]
        ELSE IF ~ip.ok \/ ~port.ok THEN [ok |-> FALSE, addr |-> NoAddr]
        ELSE [ok |-> TRUE, addr |-> [ip |-> ip.octets, port |-> port.val]]

DefaultPort == 25565

\* the split with a port of 25565 for an address that has no ':'
lookup_host_default_port(s) ==
    LET c    == rfind(s, Colon)
        port == parse_u16(SubSeq(s, c + 1, Len(s)))
    IN  IF c = 0 THEN Ok([host |-> s, port |-> DefaultPort])
        ELSE IF ~port.ok THEN Err("InvalidInput", "invalid port value")
        ELSE Ok([host |-> SubSeq(s, 1, c - 1), port |-> port.val])

\* the (host, port) the resolver is asked about: s.rsplit_once(':') and the
\* port as a u16
lookup_host(s) ==
    LET c    == rfind(s, Colon)
        port == parse_u16(SubSeq(s, c + 1, Len(s)))
    IN  IF c = 0 THEN Err("InvalidInput", "invalid socket address")
        ELSE IF ~port.ok THEN Err("InvalidInput", "invalid port value")
        ELSE Ok([host |-> SubSeq(s, 1, c - 1), port |-> port.val])

\* to_socket_addrs that falls back to 127.0.0.1:25565 when it has no address
to_socket_addrs_lenient(s, answer) ==
    LET lit == parse_socket_addr(s)
        lh  == lookup_host(s)
    IN  IF lit.ok THEN Ok(<<lit.addr>>)
        ELSE IF lh.tag # "Ok" \/ answer.tag # "Ok"
        THEN Ok(<<[ip |-> <<127, 0, 0, 1>>, port |-> DefaultPort]>>)
        ELSE Ok([i \in 1..Len(answer.val) |->
                    [ip |-> answer.val[i], port |-> lh.val.port]])

\* address.to_socket_addrs() where the resolver, when it is asked, gives
\* `answer`: Ok(the IP addresses of the host) or an Err
to_socket_addrs(s, answer) ==
    LET lit == parse_socket_addr(s)
        lh  == lookup_host(s)
    IN  IF lit.ok THEN Ok(<<lit.addr>>)
        ELSE IF lh.tag # "Ok" THEN lh
        ELSE IF answer.tag # "Ok" THEN answer
        ELSE Ok([i \in 1..Len(answer.val) |->
                    [ip |-> answer.val[i], port |-> lh.val.port]])

\* u8::to_string()
to_decimal(n) ==
    IF n < 10 THEN <<48 + n>>
    ELSE IF n < 100 THEN <<48 + (n \div 10), 48 + (n % 10)>>
    ELSE <<48 + (n \div 100), 48 + ((n \div 10) % 10), 48 + (n % 10)>>

\* addr.ip().to_string()
ip_to_string(ip) ==
    to_decimal(ip[1]) \o <<Dot>> \o to_decimal(ip[2]) \o <<Dot>>
    \o to_decimal(ip[3]) \o <<Dot>> \o to_decimal(ip[4])

\* port.to_le_bytes()
to_le_bytes(port) == <<port % 256, port \div 256>>

\* port.to_be_bytes()
to_be_bytes(port) == <<port \div 256, port % 256>>

-----------------------------------------------------------------------------
(* The codec driven call by call: a buffer is filled by write_varint, by     *)
(* write_string or with bytes received from a peer, and then handed to one   *)
(* of the slice decoders.                                                    *)

VARIABLES
    pc,               \* "idle", "write_varint" (in its loop), "ready", "done",
                      \* or "stream" while a connection is open
    call,             \* what filled buf: [op, impl, v, s]
    value,            \* write_varint's local `value`
    buf,              \* the Vec<u8> / the slice
    reader,           \* the decoder applied to buf
    ret,              \* the decoder's result
    consumed,         \* bytes the VarInt decoder read from buf
    overflow_checks,  \* the build's overflow-checks setting for the decoder
    wkind,            \* who writes to the connection: "send_packet" or "peer"
    wstate,           \* the writing end: "open", "failed" or "closed"
    wire,             \* bytes written to the connection and not yet read
    payloads,         \* the payloads send_packet has sent, in order
    last_write,       \* the last send_packet: its data, the bytes that got
                      \* out, write_all's result (io) and its own (ret)
    peer_sent,        \* the number of bytes the peer has written
    rp,               \* read_packet: "none", "varint", "payload", "returned"
    result,           \* read_varint's `result`
    shift,            \* read_varint's `shift`
    length,           \* read_packet's `length`
    filled,           \* the part of `buffer` that read_exact has filled
    rbytes,           \* the bytes this read_packet call took off the stream
    stop,             \* what ended the call's last read: "none", "eof", "timeout"
    rp_ret,           \* read_packet's result
    got               \* the packets read_packet has returned, in order

\* One call of ping_server at a time, the server it talks to, and the
\* connections the calls have opened.
VARIABLES
    step,             \* where ping_server is: "idle", "resolve", "connect",
                      \* "set_read_timeout", "set_write_timeout", "handshake",
                      \* "status_request", "read_varint", "read_payload",
                      \* "parse", "returned"
    pimpl,            \* "mod" for mc_server/mod.rs, "legacy" for mc_server.rs
    address,          \* the &str argument, as its chars
    lookup,           \* what the resolver answered for this call
    addr,             \* the SocketAddr `addr`
    handshake,        \* the Vec<u8> `handshake`
    hs_value,         \* `value` of the write_varint call that fills it
    conns,            \* the TcpStreams that are open, and the one the last call
                      \* closed, in the order they were made:
                      \* [to, state, read_timeout, write_timeout]
    sent,             \* the write_all calls on this call's stream: [data, packet, io]
    script,           \* the bytes the server has still to send
    server,           \* the server's end: "none", "open", "closed"
    inbound,          \* bytes that arrived and ping_server has not read
    rd,               \* read_packet's locals: [result, shift, length, filled]
    response,         \* the Vec<u8> `response` of this call: what read_packet
                      \* returned
    ops,              \* the network operations of this call, in order
    pret,             \* what this call returned, and the step it returned at
    prev,             \* what the call before this one returned
    stderr,           \* the lines written to standard error, each by the source
                      \* line of its eprintln!
    calls             \* the number of calls made

ping_vars == <<step, pimpl, address, lookup, addr, handshake, hs_value, conns,
               sent, script, server, inbound, rd, response, ops, pret, prev,
               stderr, calls>>

\* A status document on its way through the derived Deserialize impls.
VARIABLES
    doc,              \* the JSON value handed to ServerStatus::deserialize
    parsed,           \* its result
    shown             \* what Description::text returned for the parsed status

status_vars == <<doc, parsed, shown>>

\* Calls of ping_server (mc_server/mod.rs) that run at the same time, each
\* on a thread of its own, and the connections they have made.
VARIABLES
    pings,            \* for each call its locals: [step, inp, addr, stream,
                      \* handshake, rd, response, ret]
    net               \* the connections, in the order they were made: [owner,
                      \* to, state, written, script, ends, inbound, sends]

conc_vars == <<pings, net>>

\* The /online command (commands/online.rs): its handler on the event loop
\* and the task it hands to the blocking pool.
VARIABLES
    ostep,            \* where the handler is: "idle", "defer", "spawn", "await",
                      \* "match", "returned"
    task,             \* the blocking task: "none", "queued", "running",
                      \* "finished", "panicked", "cancelled"
    ran_on,           \* the thread ping_server ran on: "none", "blocking",
                      \* "event_loop"
    oresult,          \* `result`: what awaiting the JoinHandle gave
    says,             \* the context.say calls: [message, io]
    oret,             \* what the handler returned
    others            \* turns other tasks have had on the event loop

online_vars == <<ostep, task, ran_on, oresult, says, oret, others>>

\* The /backup command (commands/backup.rs) and the rate-limit state it
\* shares through Data (types.rs).
VARIABLES
    clock,                      \* what Instant::now() gives, in seconds
    ticks,                      \* how often the clock has moved
    last_backup_time,           \* Data.last_backup_time: user -> Option<Instant>
    last_global_backup_time,    \* Data.last_global_backup_time
    map_writer,                 \* who holds the write lock of last_backup_time
    global_writer,              \* who holds the write lock of
                                \* last_global_backup_time
    backups                     \* the invocations of backup: [user, at, now,
                                \* said, found, ret]

backup_vars ==
    <<clock, ticks, last_backup_time, last_global_backup_time, map_writer,
      global_writer, backups>>

\* The player repository (database.rs) over the table minecraft_users.
VARIABLES
    minecraft_users,  \* the rows of the table, in rowid order:
                      \* [mc_uuid, mc_username]
    history           \* the calls made on the repository, each with what it
                      \* returned and the table it left

repo_vars == <<minecraft_users, history>>

\* the state outside ping_server and the wire codec
app_vars == <<status_vars, conc_vars, online_vars, backup_vars, repo_vars>>

codec_vars == <<call, value, buf, reader, ret, consumed, overflow_checks>>

writer_vars == <<wkind, wstate, payloads, last_write, peer_sent>>

reader_vars == <<rp, result, shift, length, filled, rbytes, stop, rp_ret, got>>

stream_vars == <<writer_vars, wire, reader_vars>>

vars == <<pc, codec_vars, stream_vars, ping_vars, app_vars>>

Pow2s == {2 ^ k : k \in 0..30}

\* the i32 handed to write_varint
Values ==
    (-MaxSmall..MaxSmall)
    \cup Pow2s \cup {p - 1 : p \in Pow2s} \cup {-p : p \in Pow2s}
    \cup {-p - 1 : p \in Pow2s}
    \cup {255, 300, 25565, I32Max, I32Max - 1, I32Min, I32Min + 1}

\* first bytes and later bytes of the slices handed to the decoders
FirstBytes == {0, 1, 2, 3, 127, 128, 195, 250, 251, 255}

RestBytes == {0, 15, 116, 128, 255}

RECURSIVE SeqsUpTo(_, _)
SeqsUpTo(S, n) ==
    IF n = 0 THEN {<<>>}
    ELSE LET shorter == SeqsUpTo(S, n - 1)
         IN  shorter \cup {Append(q, x) : q \in shorter, x \in S}

Slices ==
    {<<>>} \cup {<<b>> \o r : b \in FirstBytes, r \in SeqsUpTo(RestBytes, MaxSliceLen - 1)}

\* 't', e-acute, the euro sign, an emoji: 1, 2, 3 and 4 bytes of UTF-8
Chars == {116, 233, 8364, 128512}

Repeat(c, n) == [i \in 1..n |-> c]

Strings ==
    SeqsUpTo(Chars, MaxChars)
    \cup {<<116, 101, 115, 116>>}
    \cup {Repeat(128512, 31), Repeat(128512, 32), Repeat(8364, 43)}

NoCall == [op |-> "none", impl |-> "", v |-> 0, s |-> <<>>]

NoWrite == [data |-> <<>>, bytes |-> <<>>, io |-> Ok(NoVal), ret |-> Ok(NoVal)]

\* the i32 ping_server hands to write_varint as the protocol version
ProtocolVersion == -1

NoSource == [tag |-> "none", val |-> NoVal, kind |-> "", msg |-> ""]

\* ping_server has not returned
NoRet ==
    [tag |-> "none", val |-> NoVal, kind |-> "", msg |-> "", source |-> NoSource,
     at |-> ""]

FramingErrors == {VarIntTooLarge, UnexpectedEndOfData, TruncatedString}

\* the category of the failure r, by the step that failed and its cause
Category(r) ==
    CASE r.at = "resolve" -> "resolution"
      [] r.at = "connect" -> "connection"
      [] r.at # "resolve" /\ r.at # "connect" /\ r.source \in FramingErrors -> "framing"
      [] r.at = "parse" /\ r.source \notin FramingErrors -> "json"
      [] OTHER -> "io"

\* what the caller of ping_server holds of a result r: Ok or Err, the
\* variant of the error, its text and the text of the io::Error inside it;
\* with it, the category of the failure
Held(r) ==
    [tag |-> r.tag, kind |-> r.kind, msg |-> r.msg,
     text |-> IF r.kind = "Io" THEN r.source.msg ELSE "",
     category |-> IF r.tag = "Err" THEN Category(r) ELSE ""]

NoRead == [result |-> 0, shift |-> 0, length |-> 0, filled |-> <<>>]

\* Description::text has not been called
NoShown == <<0>>

\* no document has been deserialized
StatusIdle ==
    /\ doc = <<>>
    /\ parsed = NoRet
    /\ shown = NoShown

\* the calls that may run at the same time
Pings == 1..MaxPings

\* what the environment holds for a call: nothing yet
NoInput ==
    [address |-> <<>>, answer |-> NoSource, connect |-> NoSource, reply |-> <<>>,
     ends |-> "", oc |-> FALSE]

\* a call that has not been made
NoPing ==
    [step |-> "idle", inp |-> NoInput, addr |-> NoAddr, stream |-> 0, handshake |-> <<>>, rd |-> NoRead, response |-> <<>>,
     ret |-> NoRet]

\* no call has been made
ConcIdle ==
    /\ pings = [i \in Pings |-> NoPing]
    /\ net = <<>>

\* /online has not been invoked
OnlineIdle ==
    /\ ostep = "idle"
    /\ task = "none"
    /\ ran_on = "none"
    /\ oresult = NoRet
    /\ says = <<>>
    /\ oret = NoRet
    /\ others = 0

\* the ids of the users who invoke /backup
UserIds == {1, 2}

\* the invocations of /backup
Invocations == 1..MaxInvocations

\* Option<Instant>
NoInstant == [some |-> FALSE, at |-> 0]
SomeInstant(at) == [some |-> TRUE, at |-> at]

\* nobody holds the lock
NoWriter == 0

\* the message of an invocation that has said nothing
NoMessage == [kind |-> "", hours |-> 0, minutes |-> 0]

\* an invocation of /backup that has not begun
NoBackup ==
    [user |-> 0, at |-> "idle", now |-> NoInstant, said |-> NoMessage,
     found |-> "", ret |-> NoRet]

\* Data as main builds it: nobody has published, the locks are free
BackupIdle ==
    /\ clock = 0
    /\ ticks = 0
    /\ last_backup_time = [u \in UserIds |-> NoInstant]
    /\ last_global_backup_time = NoInstant
    /\ map_writer = NoWriter
    /\ global_writer = NoWriter
    /\ backups = [i \in Invocations |-> NoBackup]

\* the database as init_db creates it: the table is empty
RepoIdle ==
    /\ minecraft_users = <<>>
    /\ history = <<>>

\* the state outside ping_server and the wire codec, before anything ran
AppIdle == StatusIdle /\ ConcIdle /\ OnlineIdle /\ BackupIdle /\ RepoIdle

\* no call of ping_server has been made
PingIdle ==
    /\ step = "idle"
    /\ pimpl = "mod"
    /\ address = <<>>
    /\ lookup = NoSource
    /\ addr = NoAddr
    /\ handshake = <<>>
    /\ hs_value = ProtocolVersion
    /\ conns = <<>>
    /\ sent = <<>>
    /\ script = <<>>
    /\ server = "none"
    /\ inbound = <<>>
    /\ rd = NoRead
    /\ response = <<>>
    /\ ops = <<>>
    /\ pret = NoRet
    /\ prev = Held(NoRet)
    /\ stderr = <<>>
    /\ calls = 0

Init ==
    /\ pc = "idle"
    /\ call = NoCall
    /\ value = 0
    /\ buf = <<>>
    /\ reader = "none"
    /\ ret = Ok(NoVal)
    /\ consumed = 0
    /\ overflow_checks = FALSE
    /\ wkind = "none"
    /\ wstate = "closed"
    /\ wire = <<>>
    /\ payloads = <<>>
    /\ last_write = NoWrite
    /\ peer_sent = 0
    /\ rp = "none"
    /\ result = 0
    /\ shift = 0
    /\ length = 0
    /\ filled = <<>>
    /\ rbytes = <<>>
    /\ stop = "none"
    /\ rp_ret = Ok(NoVal)
    /\ got = <<>>
    /\ PingIdle
    /\ AppIdle

\* write_varint(&mut buf, v) is entered; impl is "protocol" for
\* mc_server/protocol.rs (value = v as u32) and "legacy" for mc_server.rs
\* (value stays the i32 v)
WriteVarintCall ==
    /\ pc = "idle"
    /\ \E v \in Values, impl \in {"protocol", "legacy"} :
          /\ call' = [op |-> "write_varint", impl |-> impl, v |-> v, s |-> <<>>]
          /\ value' = v
    /\ pc' = "write_varint"
    /\ buf' = <<>>
    /\ UNCHANGED <<ping_vars, app_vars, reader, ret, consumed, overflow_checks, stream_vars>>

\* one pass of write_varint's loop; the loop is left when value is 0
WriteVarintPass ==
    /\ pc = "write_varint"
    /\ Len(buf) < MaxBuf
    /\ LET it == IF call.impl = "legacy" THEN legacy_write_varint_iter(value)
                 ELSE write_varint_iter(value)
       IN  /\ buf' = Append(buf, it.temp)
           /\ value' = it.value
           /\ pc' = IF it.again THEN "write_varint" ELSE "ready"
    /\ UNCHANGED <<ping_vars, app_vars, call, reader, ret, consumed, overflow_checks, stream_vars>>

\* write_string(&mut buf, s) on an empty buffer
WriteString ==
    /\ pc = "idle"
    /\ \E s \in Strings :
          /\ call' = [op |-> "write_string", impl |-> "protocol", v |-> 0, s |-> s]
          /\ buf' = write_string(<<>>, s)
    /\ pc' = "ready"
    /\ UNCHANGED <<ping_vars, app_vars, value, reader, ret, consumed, overflow_checks, stream_vars>>

\* a slice of bytes that came from a peer
Receive ==
    /\ pc = "idle"
    /\ \E d \in Slices : buf' = d
    /\ call' = [op |-> "receive", impl |-> "", v |-> 0, s |-> <<>>]
    /\ pc' = "ready"
    /\ UNCHANGED <<ping_vars, app_vars, value, reader, ret, consumed, overflow_checks, stream_vars>>

\* read_varint_from_slice(&buf)
ReadVarintFromSlice ==
    /\ pc = "ready"
    /\ pc' = "done"
    /\ reader' = "read_varint_from_slice"
    /\ LET d == read_varint_from_slice(buf)
       IN  ret' = d.ret /\ consumed' = d.consumed
    /\ UNCHANGED <<ping_vars, app_vars, call, value, buf, overflow_checks, stream_vars>>

\* read_string(&buf) in a build with overflow checks on or off
ReadString ==
    /\ pc = "ready"
    /\ pc' = "done"
    /\ reader' = "read_string"
    /\ \E oc \in BOOLEAN :
          /\ overflow_checks' = oc
          /\ ret' = read_string(buf, oc)
    /\ consumed' = read_varint_from_slice(buf).consumed
    /\ UNCHANGED <<ping_vars, app_vars, call, value, buf, stream_vars>>

CodecNext ==
    \/ WriteVarintCall
    \/ WriteVarintPass
    \/ WriteString
    \/ Receive
    \/ ReadVarintFromSlice
    \/ ReadString

-----------------------------------------------------------------------------
(* Framing over a TcpStream: one end writes (send_packet, or a peer that    *)
(* writes what it likes byte by byte), the other end runs read_packet.      *)

\* `n as i32` of a length below 2^31
len_as_i32(n) == n

\* the packet send_packet builds, with the prefix counting itself as well
packet_of_counting_prefix(data) ==
    write_varint(<<>>, len_as_i32(Len(data) + 1)) \o data

\* the packet send_packet(stream, data) builds and hands to write_all
packet_of(data) == write_varint(<<>>, len_as_i32(Len(data))) \o data

\* what send_packet returns when write_all returned w (`?`, then Ok(()))
send_packet_ret(w) == IF w.tag = "Ok" THEN Ok(NoVal) ELSE w

\* the errors a blocking write or read on the socket ends with
WriteErrors ==
    {Err("WouldBlock", "write timed out"), Err("BrokenPipe", "broken pipe"),
     Err("ConnectionReset", "connection reset")}

ReadTimeouts ==
    {Err("WouldBlock", "read timed out"), Err("TimedOut", "read timed out")}

\* read_exact at end of stream, handing back what it has
read_exact_eof_partial(part) == Ok(part)

\* read_exact when the stream ends before the buffer is full
read_exact_eof(part) == Err("UnexpectedEof", "failed to fill whole buffer")

\* the largest capacity a Vec may have: isize::MAX
IsizeMax == <<65535, 65535, 65535, 32767>>

\* whether vec![0u8; length as usize] panics with a capacity overflow
alloc_fails(len) == usize_gt(as_usize(len), IsizeMax)

PayloadBytes == {0, 2, 255}

\* ping_server sends two packets over a connection (handshake, status request)
PacketsPerExchange == 2

\* a payload of n bytes, all different from their neighbours
LongPayload(n) == [i \in 1..n |-> (i * 7) % 256]

Payloads ==
    SeqsUpTo(PayloadBytes, MaxPayload) \cup {LongPayload(127), LongPayload(128)}

PeerBytes == {0, 2, 15, 255}

\* a connection is opened, its writing end held by send_packet or by a peer
Connect ==
    /\ pc = "idle"
    /\ pc' = "stream"
    /\ \E k \in {"send_packet", "peer"} : wkind' = k
    /\ wstate' = "open"
    /\ UNCHANGED <<ping_vars, app_vars, codec_vars, wire, payloads, last_write, peer_sent, reader_vars>>

\* send_packet(stream, data) whose write_all succeeds
SendPacketOk ==
    /\ pc = "stream" /\ wkind = "send_packet" /\ wstate = "open"
    /\ Len(payloads) < PacketsPerExchange
    /\ \E data \in Payloads :
          /\ wire' = wire \o packet_of(data)
          /\ payloads' = Append(payloads, data)
          /\ last_write' = [data |-> data, bytes |-> packet_of(data),
                            io |-> Ok(NoVal), ret |-> send_packet_ret(Ok(NoVal))]
    /\ UNCHANGED <<ping_vars, app_vars, pc, codec_vars, wkind, wstate, peer_sent, reader_vars>>

\* send_packet(stream, data) whose write_all fails after some of the bytes
SendPacketFail ==
    /\ pc = "stream" /\ wkind = "send_packet" /\ wstate = "open"
    /\ Len(payloads) < PacketsPerExchange
    /\ \E data \in Payloads, e \in WriteErrors :
          LET packet == packet_of(data)
              most   == IF Len(packet) - 1 < MaxCut THEN Len(packet) - 1 ELSE MaxCut
          IN  \E k \in 0..most :
                 /\ wire' = wire \o SubSeq(packet, 1, k)
                 /\ last_write' = [data |-> data, bytes |-> SubSeq(packet, 1, k),
                                   io |-> e, ret |-> send_packet_ret(e)]
    /\ wstate' = "failed"
    /\ UNCHANGED <<ping_vars, app_vars, pc, codec_vars, wkind, payloads, peer_sent, reader_vars>>

\* a peer writes one more byte; it arrives when the reader has taken the rest
PeerWrite ==
    /\ pc = "stream" /\ wkind = "peer" /\ wstate = "open"
    /\ wire = <<>>
    /\ peer_sent < MaxStream
    /\ \E b \in PeerBytes : wire' = <<b>>
    /\ peer_sent' = peer_sent + 1
    /\ UNCHANGED <<ping_vars, app_vars, pc, codec_vars, wkind, wstate, payloads, last_write, reader_vars>>

\* the writing end is closed (the stream is dropped, or the peer hangs up)
CloseWriter ==
    /\ pc = "stream" /\ wstate \in {"open", "failed"}
    /\ wstate' = "closed"
    /\ UNCHANGED <<ping_vars, app_vars, pc, codec_vars, wkind, payloads, last_write, peer_sent, wire,
                   reader_vars>>

\* read_packet(stream) is entered: read_varint starts with result = shift = 0
ReadPacketCall ==
    /\ pc = "stream" /\ rp \in {"none", "returned"}
    /\ rp_ret.tag = "Ok"
    /\ Len(got) < PacketsPerExchange
    /\ rp' = "varint"
    /\ result' = 0 /\ shift' = 0 /\ length' = 0
    /\ filled' = <<>> /\ rbytes' = <<>> /\ stop' = "none"
    /\ UNCHANGED <<ping_vars, app_vars, pc, codec_vars, writer_vars, wire, rp_ret, got>>

\* read_varint: read_exact of one byte, then process_varint_byte; when the
\* VarInt is complete read_packet allocates vec![0u8; length as usize]
ReadVarintByte ==
    /\ pc = "stream" /\ rp = "varint"
    /\ wire # <<>>
    /\ wire' = Tail(wire)
    /\ rbytes' = Append(rbytes, Head(wire))
    /\ LET p == process_varint_byte(Head(wire), result, shift)
       IN  /\ result' = p.result
           /\ shift' = p.shift
           /\ CASE p.st = "more" ->
                     /\ rp' = "varint"
                     /\ UNCHANGED <<length, rp_ret>>
                [] p.st = "err" ->
                     /\ rp' = "returned"
                     /\ rp_ret' = p.err
                     /\ UNCHANGED length
                [] OTHER ->
                     /\ length' = p.result
                     /\ IF alloc_fails(p.result)
                        THEN rp' = "returned" /\ rp_ret' = Panic("capacity overflow")
                        ELSE rp' = "payload" /\ UNCHANGED rp_ret
    /\ UNCHANGED <<ping_vars, app_vars, pc, codec_vars, writer_vars, filled, stop, got>>

\* read_exact(&mut buffer): one read that returns some of the bytes waiting
ReadPayloadChunk ==
    /\ pc = "stream" /\ rp = "payload"
    /\ Len(filled) < length
    /\ wire # <<>>
    /\ LET want == length - Len(filled)
           most == IF Len(wire) < want THEN Len(wire) ELSE want
       IN  \E k \in (1..most) \cap ((1..MaxChunk) \cup {most}) :
              /\ filled' = filled \o SubSeq(wire, 1, k)
              /\ rbytes' = rbytes \o SubSeq(wire, 1, k)
              /\ wire' = SubSeq(wire, k + 1, Len(wire))
    /\ UNCHANGED <<ping_vars, app_vars, pc, codec_vars, writer_vars, rp, result, shift, length, stop,
                   rp_ret, got>>

\* read_exact has filled the buffer (at once when it is empty):
\* read_packet returns Ok(buffer)
ReadPacketReturn ==
    /\ pc = "stream" /\ rp = "payload"
    /\ Len(filled) = length
    /\ rp' = "returned"
    /\ rp_ret' = Ok(filled)
    /\ got' = Append(got, filled)
    /\ UNCHANGED <<ping_vars, app_vars, pc, codec_vars, writer_vars, wire, result, shift, length,
                   filled, rbytes, stop>>

\* a read that still needs bytes
Reading == rp = "varint" \/ (rp = "payload" /\ Len(filled) < length)

\* the stream ends while read_exact still needs bytes
ReadEof ==
    /\ pc = "stream" /\ Reading
    /\ wire = <<>> /\ wstate = "closed"
    /\ rp' = "returned"
    /\ stop' = "eof"
    /\ rp_ret' = read_exact_eof(filled)
    /\ UNCHANGED <<ping_vars, app_vars, pc, codec_vars, writer_vars, wire, result, shift, length,
                   filled, rbytes, got>>

\* no byte arrives within the read timeout while read_exact needs bytes
ReadTimeout ==
    /\ pc = "stream" /\ Reading
    /\ wire = <<>> /\ wstate # "closed"
    /\ rp' = "returned"
    /\ stop' = "timeout"
    /\ \E e \in ReadTimeouts : rp_ret' = e
    /\ UNCHANGED <<ping_vars, app_vars, pc, codec_vars, writer_vars, wire, result, shift, length,
                   filled, rbytes, got>>

StreamNext ==
    \/ Connect
    \/ SendPacketOk
    \/ SendPacketFail
    \/ PeerWrite
    \/ CloseWriter
    \/ ReadPacketCall
    \/ ReadVarintByte
    \/ ReadPayloadChunk
    \/ ReadPacketReturn
    \/ ReadEof
    \/ ReadTimeout

Next == CodecNext \/ StreamNext

Spec == Init /\ [][Next]_vars

-----------------------------------------------------------------------------
(* The status document.  serde_json reads the text into JSON values; the    *)
(* Deserialize impls derived for ServerStatus and its parts (mc_server/     *)
(* mod.rs:15-51, the same in mc_server.rs:6-39) turn the values into typed  *)
(* ones.  A JSON value is [t, s, n, items]: t is "null", "str", "int",      *)
(* "arr" or "obj"; the items of an object are its members [k, v] in the     *)
(* order of the text.                                                       *)

JNull == [t |-> "null", s |-> <<>>, n |-> 0, items |-> <<>>]

JStr(s) == [t |-> "str", s |-> s, n |-> 0, items |-> <<>>]

JInt(n) == [t |-> "int", s |-> <<>>, n |-> n, items |-> <<>>]

JArr(xs) == [t |-> "arr", s |-> <<>>, n |-> 0, items |-> xs]

JObj(ms) == [t |-> "obj", s |-> <<>>, n |-> 0, items |-> ms]

\* the least element of a non-empty set of numbers
Least(S) == CHOOSE x \in S : \A y \in S : x <= y

\* the value of the member k of the members ms (its first one)
member(ms, k) == ms[Least({i \in 1..Len(ms) : ms[i].k = k})].v

has_member(ms, k) == \E i \in 1..Len(ms) : ms[i].k = k

\* String::deserialize
de_String(v) ==
    IF v.t = "str" THEN Ok(v.s)
    ELSE Err("Data", "invalid type, expected a string")

\* u16::deserialize: an integer from 0 to 65535
de_u16(v) ==
    IF v.t # "int" THEN Err("Data", "invalid type, expected u16")
    ELSE IF v.n < 0 \/ v.n > U16Max THEN Err("Data", "invalid value, expected u16")
    ELSE Ok(v.n)

\* a derived struct is read from an object, or from an array that gives its
\* fields in the order of their declaration: the members an array stands for
as_members(v, names) ==
    IF v.t = "obj" THEN v.items
    ELSE [i \in 1..Len(v.items) |-> [k |-> names[i], v |-> v.items[i]]]

\* the derived visitor of a struct with the fields `names`, of which those
\* in `defaulted` have #[serde(default)], over the value v: members are
\* taken in the order of the text, a member that is no field is skipped, a
\* field met twice or a value De rejects ends the visit; then the first
\* field that was not met, and has no default, is reported.  Ok(NoVal)
\* when every field can be filled.  des[i] is what the deserializer of its
\* field gives for the i-th member.
visit_struct(v, names, defaulted, des) ==
    IF v.t \notin {"obj", "arr"}
    THEN Err("Data", "invalid type, expected struct")
    ELSE IF v.t = "arr" /\ Len(v.items) > Len(names)
    THEN Err("Data", "invalid length")
    ELSE
    LET ms == as_members(v, names)
        known(i) == \E j \in 1..Len(names) : names[j] = ms[i].k
        dup(i) == \E h \in 1..(i - 1) : ms[h].k = ms[i].k
        bad == {i \in 1..Len(ms) :
                   known(i) /\ (dup(i) \/ des[i].tag # "Ok")}
        missing == {j \in 1..Len(names) :
                       names[j] \notin defaulted /\ ~has_member(ms, names[j])}
    IN  IF bad # {}
        THEN LET i == Least(bad)
             IN  IF dup(i) THEN Err("Data", "duplicate field " \o ms[i].k)
                 ELSE des[i]
        ELSE IF missing # {}
        THEN Err("Data", "missing field " \o names[Least(missing)])
        ELSE Ok(NoVal)

\* the value given for the field k of a struct read from v
field_of(v, names, k) == member(as_members(v, names), k)

\* VersionInfo { name: String, protocol: u16 }
de_VersionInfo(v) ==
    LET names == <<"name", "protocol">>
        De(k, x) == IF k = "name" THEN de_String(x) ELSE de_u16(x)
        des == [i \in 1..Len(as_members(v, names)) |->
                   De(as_members(v, names)[i].k, as_members(v, names)[i].v)]
        seen == visit_struct(v, names, {}, des)
    IN  IF seen.tag # "Ok" THEN seen
        ELSE Ok([name |-> de_String(field_of(v, names, "name")).val,
                 protocol |-> de_u16(field_of(v, names, "protocol")).val])

\* PlayerSample { name: String, id: String }
de_PlayerSample(v) ==
    LET names == <<"name", "id">>
        De(k, x) == de_String(x)
        des == [i \in 1..Len(as_members(v, names)) |->
                   De(as_members(v, names)[i].k, as_members(v, names)[i].v)]
        seen == visit_struct(v, names, {}, des)
    IN  IF seen.tag # "Ok" THEN seen
        ELSE Ok([name |-> de_String(field_of(v, names, "name")).val,
                 id |-> de_String(field_of(v, names, "id")).val])

\* Vec<PlayerSample>: an array, element by element
de_Vec_PlayerSample(v) ==
    IF v.t # "arr" THEN Err("Data", "invalid type, expected a sequence")
    ELSE LET bad == {i \in 1..Len(v.items) : de_PlayerSample(v.items[i]).tag # "Ok"}
         IN  IF bad # {} THEN de_PlayerSample(v.items[Least(bad)])
             ELSE Ok([i \in 1..Len(v.items) |-> de_PlayerSample(v.items[i]).val])

\* PlayersInfo { max: u16, online: u16, #[serde(default)] sample }
de_PlayersInfo(v) ==
    LET names == <<"max", "online", "sample">>
        De(k, x) == IF k = "sample" THEN de_Vec_PlayerSample(x) ELSE de_u16(x)
        des == [i \in 1..Len(as_members(v, names)) |->
                   De(as_members(v, names)[i].k, as_members(v, names)[i].v)]
        seen == visit_struct(v, names, {"sample"}, des)
    IN  IF seen.tag # "Ok" THEN seen
        ELSE Ok([max |-> de_u16(field_of(v, names, "max")).val,
                 online |-> de_u16(field_of(v, names, "online")).val,
                 sample |-> IF has_member(as_members(v, names), "sample")
                            THEN de_Vec_PlayerSample(field_of(v, names, "sample")).val
                            ELSE <<>>])

\* Description, untagged, with its first variant only
de_Description_string_only(v) ==
    IF v.t = "str" THEN Ok([shape |-> "String", text |-> v.s])
    ELSE Err("Data", "data did not match any variant of untagged enum Description")

\* #[serde(untagged)] Description: the variants are tried in the order of
\* their declaration, String(String) and then Object { text: String }
de_Description(v) ==
    LET names == <<"text">>
        De(k, x) == de_String(x)
        des == [i \in 1..Len(as_members(v, names)) |->
                   De(as_members(v, names)[i].k, as_members(v, names)[i].v)]
    IN  IF de_String(v).tag = "Ok"
        THEN Ok([shape |-> "String", text |-> de_String(v).val])
        ELSE IF visit_struct(v, names, {}, des).tag = "Ok"
        THEN Ok([shape |-> "Object", text |-> de_String(field_of(v, names, "text")).val])
        ELSE Err("Data", "data did not match any variant of untagged enum Description")

\* Description::text
Description_text(d) ==
    CASE d.shape = "String" -> d.text
      [] d.shape = "Object" -> d.text

\* ServerStatus { version, players, description }
de_ServerStatus(v) ==
    LET names == <<"version", "players", "description">>
        De(k, x) == CASE k = "version" -> de_VersionInfo(x)
                      [] k = "players" -> de_PlayersInfo(x)
                      [] k = "description" -> de_Description(x)
                      [] OTHER -> Ok(NoVal)
        des == [i \in 1..Len(as_members(v, names)) |->
                   De(as_members(v, names)[i].k, as_members(v, names)[i].v)]
        seen == visit_struct(v, names, {}, des)
    IN  IF seen.tag # "Ok" THEN seen
        ELSE Ok([version |-> de_VersionInfo(field_of(v, names, "version")).val,
                 players |-> de_PlayersInfo(field_of(v, names, "players")).val,
                 description |-> de_Description(field_of(v, names, "description")).val])

-----------------------------------------------------------------------------
(* ping_server (src/mc_server/mod.rs, src/mc_server.rs): the values it      *)
(* returns and the bytes it sends.                                          *)

\* Ok(status)
PingOk(status) ==
    [tag |-> "Ok", val |-> status, kind |-> "", msg |-> "", source |-> NoSource,
     at |-> ""]

\* OxideVaultError::ServerProtocol(format!("<m>{}", e))
ServerProtocol(m, e) ==
    [tag |-> "Err", val |-> NoVal, kind |-> "ServerProtocol", msg |-> m, source |-> e,
     at |-> ""]

\* OxideVaultError::Io(e)
Io(e) ==
    [tag |-> "Err", val |-> NoVal, kind |-> "Io", msg |-> "", source |-> e, at |-> ""]

\* Box<dyn Error + Send + Sync> made of e by `?` in mc_server.rs
Boxed(e) ==
    [tag |-> "Err", val |-> NoVal, kind |-> "Box", msg |-> "", source |-> e, at |-> ""]

\* a panic that unwinds out of ping_server
PingPanic(p) ==
    [tag |-> "Panic", val |-> NoVal, kind |-> "panic", msg |-> p.msg,
     source |-> NoSource, at |-> ""]

\* to_socket_addrs failed, reported with the text of a failed connect
resolve_error_as_connect(e) == ServerProtocol("Connection failed: ", e)

\* .map_err(..) of to_socket_addrs
resolve_error(e) == ServerProtocol("Failed to resolve address: ", e)

\* .ok_or_else(..) of addrs.next()
no_address_error == ServerProtocol("Could not resolve address", NoSource)

\* a failed connect turned into an error with `?` alone
connect_error_as_io(e) == Io(e)

\* .map_err(..) of TcpStream::connect_timeout
connect_error(e) == ServerProtocol("Connection failed: ", e)

\* From<std::io::Error> for OxideVaultError, which `?` applies
from_io_error(e) == Io(e)

\* .map_err(..) of serde_json::from_str
parse_error(e) == ServerProtocol("Failed to parse server response: ", e)

\* what `?` makes of the io::Error e in either ping_server
question_mark(impl, e) == IF impl = "legacy" THEN Boxed(e) ELSE from_io_error(e)

\* the Duration of connect_timeout, set_read_timeout and set_write_timeout
TimeoutSecs == 10

\* no timeout: a read or write may block for ever
NoTimeout == 0

\* the timeout set_read_timeout is called with
read_timeout_arg == TimeoutSecs

\* the timeout set_write_timeout is called with
write_timeout_arg == TimeoutSecs

\* the host text of the caller's address string in the handshake
host_str_of_address(a, s) ==
    LET c == rfind(s, Colon)
    IN  IF c = 0 THEN s ELSE SubSeq(s, 1, c - 1)

\* host_str: the resolved IP address as text
host_str(a, s) == ip_to_string(a.ip)

\* the handshake of mc_server/mod.rs for the resolved addr
build_handshake(a, s) ==
    LET id       == write_varint(<<>>, 0)
        version  == write_varint(id, ProtocolVersion)
        host     == write_string(version, host_str(a, s))
        port     == host \o to_be_bytes(a.port)
    IN  write_varint(port, 1)

\* what mc_server.rs appends after the protocol version: host and port are
\* taken from the address string (a VarInt of a value >= 0 is the same in
\* both write_varint)
legacy_handshake_rest(s) ==
    LET c    == rfind(s, Colon)
        host == IF c = 0 THEN s ELSE SubSeq(s, 1, c - 1)
        p    == parse_u16(SubSeq(s, c + 1, Len(s)))
        port == IF c = 0 \/ ~p.ok THEN DefaultPort ELSE p.val
    IN  write_string(<<>>, host) \o to_be_bytes(port) \o write_varint(<<>>, 1)

\* the status request: packet id 0
status_request == write_varint(<<>>, 0)

\* the JSON value of a status document: the version name "1.20", the three
\* integers, the description value and the members of "players" after
\* "online"
status_doc(protocol, max, online, description, more) ==
    JObj(<<[k |-> "version",
            v |-> JObj(<<[k |-> "name", v |-> JStr(<<49, 46, 50, 48>>)],
                         [k |-> "protocol", v |-> JInt(protocol)]>>)],
           [k |-> "players",
            v |-> JObj(<<[k |-> "max", v |-> JInt(max)],
                         [k |-> "online", v |-> JInt(online)]>> \o more)],
           [k |-> "description", v |-> description]>>)

\* the status document of the specification's example
StatusJson ==
    <<123, 34, 118, 101, 114, 115, 105, 111, 110, 34, 58, 123, 34, 110, 97,
      109, 101, 34, 58, 34, 49, 46, 50, 48, 34, 44, 34, 112, 114, 111, 116,
      111, 99, 111, 108, 34, 58, 55, 54, 51, 125, 44, 34, 112, 108, 97,
      121, 101, 114, 115, 34, 58, 123, 34, 109, 97, 120, 34, 58, 50, 48,
      44, 34, 111, 110, 108, 105, 110, 101, 34, 58, 51, 44, 34, 115, 97,
      109, 112, 108, 101, 34, 58, 91, 93, 125, 44, 34, 100, 101, 115, 99,
      114, 105, 112, 116, 105, 111, 110, 34, 58, 34, 65, 32, 83, 101, 114,
      118, 101, 114, 34, 125>>

\* the ServerStatus that StatusJson deserializes to
StatusValue ==
    [version |-> [name |-> <<49, 46, 50, 48>>, protocol |-> 763],
     players |-> [max |-> 20, online |-> 3, sample |-> <<>>],
     description |-> [shape |-> "String", text |-> <<65, 32, 83, 101, 114, 118, 101, 114>>]]

EmptyObjectJson == <<123, 125>>

\* the texts the servers of the model send as the status document
JsonTexts == {StatusJson, EmptyObjectJson, <<>>}

\* the JSON value serde_json reads from the text, for the texts of JsonTexts
json_value(text) ==
    IF text = StatusJson
    THEN Ok(status_doc(763, 20, 3, JStr(<<65, 32, 83, 101, 114, 118, 101, 114>>),
                       <<[k |-> "sample", v |-> JArr(<<>>)]>>))
    ELSE IF text = EmptyObjectJson THEN Ok(JObj(<<>>))
    ELSE IF text = <<>> THEN Err("Eof", "EOF while parsing a value")
    ELSE Err("Syntax", "expected value")

\* serde_json::from_str::<ServerStatus>(text)
from_str(text) ==
    IF json_value(text).tag = "Ok" THEN de_ServerStatus(json_value(text).val)
    ELSE json_value(text)

\* &response[1..] taken only when response[0] is the status packet id 0
response_tail_checked(r) ==
    IF Len(r) < 1 THEN Panic("range start index 1 out of range for slice of length 0")
    ELSE IF r[1] # 0 THEN Err("InvalidData", "unexpected packet id")
    ELSE Ok(Tail(r))

\* &response[1..]
response_tail(r) ==
    IF Len(r) < 1 THEN Panic("range start index 1 out of range for slice of length 0")
    ELSE Ok(Tail(r))

-----------------------------------------------------------------------------
(* ping_server step by step.  Each blocking call is one action; the server  *)
(* and the network choose how it ends.                                      *)

\* the address strings ping_server is called with
Addresses == {
    \* "mc"
    <<109, 99>>,
    \* "localhost"
    <<108, 111, 99, 97, 108, 104, 111, 115, 116>>,
    \* "invalid-address-no-port"
    <<105, 110, 118, 97, 108, 105, 100, 45, 97, 100, 100, 114, 101, 115,
      115, 45, 110, 111, 45, 112, 111, 114, 116>>,
    \* "mc:25565"
    <<109, 99, 58, 50, 53, 53, 54, 53>>,
    \* "mc:x"
    <<109, 99, 58, 120>>,
    \* "10.0.0.7:25565"
    <<49, 48, 46, 48, 46, 48, 46, 55, 58, 50, 53, 53, 54, 53>>,
    \* "127.0.0.1:1"
    <<49, 50, 55, 46, 48, 46, 48, 46, 49, 58, 49>>
    }

\* what the resolver may answer about a host name: a failure, or the IP
\* addresses of the host
Answers ==
    {Err("Uncategorized", "failed to lookup address information"),
     Ok(<<>>),
     Ok(<< <<192, 168, 1, 20>> >>),
     Ok(<< <<10, 0, 0, 7>>, <<192, 168, 1, 20>> >>)}

ConnectErrors ==
    {Err("ConnectionRefused", "connection refused"),
     Err("TimedOut", "connection timed out"),
     Err("NetworkUnreachable", "network unreachable")}

SockoptErrors == {Err("InvalidInput", "setsockopt failed")}

\* a status response frame: packet id, then the document as a string
reply(id, text) == packet_of(<<id>> \o write_string(<<>>, text))

\* everything a server may send over one connection: a good response (and
\* the same under packet id 5), a bad
\* document, an empty document, nothing, a prefix of more than five bytes, an
\* empty frame, a frame of the packet id alone, a string longer than its
\* frame, a negative frame length, a frame cut short, a negative string length
Replies ==
    {reply(0, StatusJson), reply(0, EmptyObjectJson), reply(0, <<>>),
     reply(5, StatusJson),
     <<>>,
     <<255, 255, 255, 255, 255>>,
     <<0>>,
     <<1, 0>>,
     <<3, 0, 5, 123>>,
     <<255, 255, 255, 255, 15>>,
     <<4, 0, 2>>,
     <<6, 0, 255, 255, 255, 255, 15>>}

other_vars == <<pc, codec_vars, stream_vars, app_vars>>

\* the stream of the call, the server behind it and the bytes on their way
stream_side == <<conns, script, server, inbound>>

\* locals of ping_server
locals == <<handshake, rd, response>>

\* the order of ping_server's steps with the timeouts left out
after_skipping_timeouts(s) ==
    CASE s = "resolve" -> "connect"
      [] s = "connect" -> "build_handshake"
      [] s = "set_read_timeout" -> "set_write_timeout"
      [] s = "set_write_timeout" -> "build_handshake"
      [] s = "build_handshake" -> "send_handshake"
      [] s = "send_handshake" -> "send_status_request"
      [] s = "send_status_request" -> "read_packet"
      [] s = "read_packet" -> "read_varint"
      [] s = "read_varint" -> "read_payload"
      [] s = "read_payload" -> "parse"
      [] OTHER -> "returned"

\* the statement ping_server goes on with when the step s has succeeded
after(s) ==
    CASE s = "resolve" -> "connect"
      [] s = "connect" -> "set_read_timeout"
      [] s = "set_read_timeout" -> "set_write_timeout"
      [] s = "set_write_timeout" -> "build_handshake"
      [] s = "build_handshake" -> "send_handshake"
      [] s = "send_handshake" -> "send_status_request"
      [] s = "send_status_request" -> "read_packet"
      [] s = "read_packet" -> "read_varint"
      [] s = "read_varint" -> "read_payload"
      [] s = "read_payload" -> "parse"
      [] OTHER -> "returned"

\* a failed step that is tried again
after_error_retry(s) == s

\* where ping_server is after `?` met an Err in the step s: it has returned
after_error(s) == "returned"

\* a stream that stays open when its owner is gone
drop_stream_leak(c) == c

\* drop(stream): the TcpStream goes out of scope and the socket is closed
drop_stream(c) == [c EXCEPT !.state = "closed"]

\* whether this call has made its TcpStream
has_stream == conns # <<>> /\ conns[Len(conns)].call = calls

\* the locals of ping_server go out of scope (what read_packet returned
\* stays on record until the next call, as sent and ops do)
Unwinds ==
    /\ conns' = IF has_stream
                THEN [conns EXCEPT ![Len(conns)] = drop_stream(@)]
                ELSE conns
    /\ script' = <<>>
    /\ server' = "none"
    /\ inbound' = <<>>
    /\ handshake' = <<>>
    /\ rd' = NoRead
    /\ UNCHANGED response

\* return Err(e)
Fails(e) ==
    /\ step' = after_error(step)
    /\ pret' = [e EXCEPT !.at = step]
    /\ Unwinds

\* Ok(status) is returned, or a panic unwinds
Returns(r) ==
    /\ step' = "returned"
    /\ pret' = [r EXCEPT !.at = step]
    /\ Unwinds

\* the step succeeded
Proceeds ==
    /\ step' = after(step)
    /\ UNCHANGED pret

\* the lines (by source line) that the eprintln! calls of mc_server.rs
\* write; mc_server/mod.rs has none
eprintln(impl, lines) == IF impl = "legacy" THEN lines ELSE <<>>

\* ping_server(address) is called
PingServerCall ==
    /\ step \in {"idle", "returned"}
    /\ calls < MaxCalls
    /\ calls' = calls + 1
    /\ \E a \in Addresses, i \in {"mod", "legacy"} :
          /\ address' = a
          /\ pimpl' = i
          /\ stderr' = stderr \o eprintln(i, <<51, 54>>)
    /\ step' = "resolve"
    /\ lookup' = NoSource
    /\ addr' = NoAddr
    /\ handshake' = <<>>
    /\ hs_value' = ProtocolVersion
    /\ sent' = <<>>
    /\ script' = <<>>
    /\ server' = "none"
    /\ inbound' = <<>>
    /\ rd' = NoRead
    /\ response' = <<>>
    /\ ops' = <<>>
    /\ pret' = NoRet
    /\ prev' = Held(pret)
    /\ conns' = SelectSeq(conns, LAMBDA c : c.state = "open")
    /\ UNCHANGED other_vars

\* address.to_socket_addrs() and addrs.next()
Resolve ==
    /\ step = "resolve"
    /\ \E answer \in Answers :
          LET r == to_socket_addrs(address, answer)
          IN  /\ lookup' = r
              /\ IF r.tag # "Ok"
                 THEN /\ Fails(IF pimpl = "legacy" THEN Boxed(r) ELSE resolve_error(r))
                      /\ UNCHANGED <<addr, stderr>>
                 ELSE IF r.val = <<>>
                 THEN /\ Fails(IF pimpl = "legacy"
                               THEN Boxed(Err("str", "Could not resolve address"))
                               ELSE no_address_error)
                      /\ UNCHANGED <<addr, stderr>>
                 ELSE /\ Proceeds
                      /\ addr' = r.val[1]
                      /\ stderr' = stderr \o eprintln(pimpl, <<57, 59>>)
                      /\ UNCHANGED <<stream_side, locals>>
    /\ ops' = Append(ops, "to_socket_addrs")
    /\ UNCHANGED <<pimpl, address, calls, prev, hs_value, sent, other_vars>>

\* TcpStream::connect_timeout(&addr, 10 s); the server at addr has its reply
PingConnect ==
    /\ step = "connect"
    /\ ops' = Append(ops, "connect_timeout")
    /\ \/ /\ Proceeds
          /\ conns' = Append(conns, [call |-> calls, to |-> addr, state |-> "open",
                                     read_timeout |-> NoTimeout,
                                     write_timeout |-> NoTimeout])
          /\ \E s \in Replies : script' = s
          /\ server' = "open"
          /\ stderr' = stderr \o eprintln(pimpl, <<62>>)
          /\ UNCHANGED <<inbound, locals>>
       \/ /\ \E e \in ConnectErrors :
                Fails(IF pimpl = "legacy" THEN Boxed(e) ELSE connect_error(e))
          /\ UNCHANGED stderr
    /\ UNCHANGED <<pimpl, address, calls, prev, lookup, addr, hs_value, sent,
                   other_vars>>

\* stream.set_read_timeout(Some(10 s))?
SetReadTimeout ==
    /\ step = "set_read_timeout"
    /\ ops' = Append(ops, "set_read_timeout")
    /\ \/ /\ Proceeds
          /\ conns' = [conns EXCEPT ![Len(conns)].read_timeout = read_timeout_arg]
          /\ UNCHANGED <<script, server, inbound, locals>>
       \/ \E e \in SockoptErrors : Fails(question_mark(pimpl, e))
    /\ UNCHANGED <<pimpl, address, calls, prev, stderr, lookup, addr, hs_value, sent,
                   other_vars>>

\* stream.set_write_timeout(Some(10 s))?
SetWriteTimeout ==
    /\ step = "set_write_timeout"
    /\ ops' = Append(ops, "set_write_timeout")
    /\ \/ /\ Proceeds
          /\ conns' = [conns EXCEPT ![Len(conns)].write_timeout = write_timeout_arg]
          /\ stderr' = stderr \o eprintln(pimpl, <<68>>)
          /\ UNCHANGED <<script, server, inbound, locals>>
       \/ /\ \E e \in SockoptErrors : Fails(question_mark(pimpl, e))
          /\ UNCHANGED stderr
    /\ UNCHANGED <<pimpl, address, calls, prev, lookup, addr, hs_value, sent,
                   other_vars>>

\* mc_server/mod.rs: the handshake is built (writes to a Vec do not fail)
BuildHandshake ==
    /\ step = "build_handshake" /\ pimpl = "mod"
    /\ handshake' = build_handshake(addr, address)
    /\ Proceeds
    /\ UNCHANGED <<pimpl, address, calls, prev, stderr, lookup, addr, hs_value, sent,
                   stream_side, rd, response, ops, other_vars>>

\* mc_server.rs: one pass of the loop of write_varint(&mut handshake, -1),
\* the first one after write_varint(&mut handshake, 0); when the loop is
\* left the rest of the handshake is appended
LegacyBuildHandshake ==
    /\ step = "build_handshake" /\ pimpl = "legacy"
    /\ Len(handshake) < MaxBuf
    /\ LET start == IF handshake = <<>>
                    THEN <<legacy_write_varint_iter(0).temp>>
                    ELSE handshake
           it    == legacy_write_varint_iter(hs_value)
       IN  /\ hs_value' = it.value
           /\ IF it.again
              THEN /\ handshake' = Append(start, it.temp)
                   /\ UNCHANGED <<step, pret>>
              ELSE /\ handshake' = Append(start, it.temp)
                                      \o legacy_handshake_rest(address)
                   /\ Proceeds
    /\ UNCHANGED <<pimpl, address, calls, prev, stderr, lookup, addr, sent, stream_side,
                   rd, response, ops, other_vars>>

\* send_packet(&mut stream, data)?
SendPacket(data) ==
    /\ ops' = Append(ops, "write_all")
    /\ \E io \in {Ok(NoVal)} \cup WriteErrors :
          /\ sent' = Append(sent, [data |-> data, packet |-> packet_of(data),
                                   io |-> io])
          /\ IF send_packet_ret(io).tag = "Ok"
             THEN Proceeds /\ UNCHANGED <<stream_side, locals>>
             ELSE Fails(question_mark(pimpl, send_packet_ret(io)))
    /\ UNCHANGED <<pimpl, address, calls, prev, stderr, lookup, addr, hs_value, other_vars>>

\* send_packet(&mut stream, &handshake)?
SendHandshake ==
    /\ step = "send_handshake"
    /\ SendPacket(handshake)

\* send_packet(&mut stream, &status_request)?
SendStatusRequest ==
    /\ step = "send_status_request"
    /\ SendPacket(status_request)

\* read_packet(&mut stream) is entered
ReadResponse ==
    /\ step = "read_packet"
    /\ ops' = Append(ops, "read_packet")
    /\ rd' = NoRead
    /\ Proceeds
    /\ UNCHANGED <<pimpl, address, calls, prev, stderr, lookup, addr, hs_value, sent,
                   stream_side, handshake, response, other_vars>>

\* ping_server waits in a read_exact of read_packet
Waiting ==
    \/ step = "read_varint"
    \/ step = "read_payload" /\ Len(rd.filled) < rd.length

\* bytes have arrived for the read_exact that waits
BytesWaiting == Waiting /\ inbound # <<>>

\* the read_exact that waits is at the end of the stream
AtEof == Waiting /\ inbound = <<>> /\ server = "closed"

\* the read_exact that waits runs into the read timeout of the stream
TimesOut ==
    /\ Waiting
    /\ inbound = <<>> /\ server = "open"
    /\ conns[Len(conns)].read_timeout # NoTimeout

\* the server sends its next byte, or all the bytes it has left; they arrive
\* while ping_server waits for them
ServerSend ==
    /\ Waiting /\ server = "open"
    /\ inbound = <<>> /\ script # <<>>
    /\ \E k \in {1, Len(script)} :
          /\ inbound' = SubSeq(script, 1, k)
          /\ script' = SubSeq(script, k + 1, Len(script))
    /\ UNCHANGED <<step, pimpl, address, calls, prev, stderr, lookup, addr, hs_value,
                   conns, sent, server, locals, ops, pret, other_vars>>

\* the server closes the connection, whatever it had left to send
ServerClose ==
    /\ Waiting /\ server = "open"
    /\ inbound = <<>>
    /\ server' = "closed"
    /\ script' = <<>>
    /\ UNCHANGED <<step, pimpl, address, calls, prev, stderr, lookup, addr, hs_value,
                   conns, sent, inbound, locals, ops, pret, other_vars>>

\* read_varint: one byte is read and handed to process_varint_byte; with the
\* length complete read_packet makes vec![0u8; length as usize]
ResponseVarintByte ==
    /\ step = "read_varint"
    /\ BytesWaiting
    /\ LET p == process_varint_byte(Head(inbound), rd.result, rd.shift)
       IN  CASE p.st = "more" ->
                  /\ rd' = [rd EXCEPT !.result = p.result, !.shift = p.shift]
                  /\ inbound' = Tail(inbound)
                  /\ UNCHANGED <<step, pret, conns, script, server, handshake,
                                 response>>
             [] p.st = "err" ->
                  Fails(question_mark(pimpl, p.err))
             [] OTHER ->
                  IF alloc_fails(p.result)
                  THEN Returns(PingPanic(Panic("capacity overflow")))
                  ELSE /\ rd' = [rd EXCEPT !.result = p.result, !.shift = p.shift,
                                           !.length = p.result]
                       /\ Proceeds
                       /\ inbound' = Tail(inbound)
                       /\ UNCHANGED <<conns, script, server, handshake, response>>
    /\ UNCHANGED <<pimpl, address, calls, prev, stderr, lookup, addr, hs_value, sent, ops,
                   other_vars>>

\* read_exact(&mut buffer) takes the bytes that have arrived
ResponsePayload ==
    /\ step = "read_payload"
    /\ BytesWaiting
    /\ LET want == rd.length - Len(rd.filled)
           k    == IF Len(inbound) < want THEN Len(inbound) ELSE want
       IN  /\ rd' = [rd EXCEPT !.filled = @ \o SubSeq(inbound, 1, k)]
           /\ inbound' = SubSeq(inbound, k + 1, Len(inbound))
    /\ UNCHANGED <<step, pimpl, address, calls, prev, stderr, lookup, addr, hs_value,
                   conns, sent, script, server, handshake, response, ops, pret,
                   other_vars>>

\* read_exact has filled the buffer: read_packet returns it
ResponseComplete ==
    /\ step = "read_payload"
    /\ Len(rd.filled) = rd.length
    /\ response' = rd.filled
    /\ Proceeds
    /\ UNCHANGED <<pimpl, address, calls, prev, stderr, lookup, addr, hs_value, sent,
                   stream_side, handshake, rd, ops, other_vars>>

\* the server has closed and read_exact still needs bytes
ResponseEof ==
    /\ AtEof
    /\ Fails(question_mark(pimpl, read_exact_eof(rd.filled)))
    /\ UNCHANGED <<pimpl, address, calls, prev, stderr, lookup, addr, hs_value, sent, ops,
                   other_vars>>

\* nothing arrives within the stream's read timeout
ResponseTimeout ==
    /\ TimesOut
    /\ \E e \in ReadTimeouts : Fails(question_mark(pimpl, e))
    /\ UNCHANGED <<pimpl, address, calls, prev, stderr, lookup, addr, hs_value, sent, ops,
                   other_vars>>

\* let json_str = read_string(&response[1..])?
json_str_of(r, oc) ==
    IF response_tail(r).tag # "Ok" THEN response_tail(r)
    ELSE read_string(response_tail(r).val, oc)

\* what ping_server makes of `status`, the result of serde_json::from_str
parse_status(impl, status) ==
    IF status.tag = "Ok" THEN PingOk(status.val)
    ELSE IF impl = "legacy" THEN Boxed(status)
    ELSE parse_error(status)

\* what ping_server ends with once read_string has given json_str
parse_json_str(impl, json_str) ==
    CASE json_str.tag = "Panic" -> PingPanic(json_str)
      [] json_str.tag = "Err" -> question_mark(impl, json_str)
      [] OTHER -> parse_status(impl, from_str(json_str.val))

\* what ping_server ends with once read_packet has returned r: the slice
\* after the first byte is read as a string and the string as a status
\* (oc: whether the build checks arithmetic overflow)
parse_response(impl, r, oc) == parse_json_str(impl, json_str_of(r, oc))

\* read_string(&response[1..])?, then serde_json::from_str(&json_str)
ParseResponse ==
    /\ step = "parse"
    /\ \E oc \in BOOLEAN :
       \E json_str \in {json_str_of(response, oc)} :
       \E ended \in {parse_json_str(pimpl, json_str)} :
          /\ ops' = IF json_str.tag = "Ok" THEN Append(ops, "from_str") ELSE ops
          /\ IF ended.tag = "Err" THEN Fails(ended) ELSE Returns(ended)
    /\ UNCHANGED <<pimpl, address, calls, prev, stderr, lookup, addr, hs_value, sent,
                   other_vars>>

\* ping_server's own steps
ClientStep ==
    \/ Resolve
    \/ PingConnect
    \/ SetReadTimeout
    \/ SetWriteTimeout
    \/ BuildHandshake
    \/ LegacyBuildHandshake
    \/ SendHandshake
    \/ SendStatusRequest
    \/ ReadResponse
    \/ ResponseVarintByte
    \/ ResponsePayload
    \/ ResponseComplete
    \/ ResponseEof
    \/ ResponseTimeout
    \/ ParseResponse

PingNext ==
    \/ PingServerCall
    \/ ClientStep
    \/ ServerSend
    \/ ServerClose

PingSpec == Init /\ [][PingNext]_vars

-----------------------------------------------------------------------------
(* Status documents through ServerStatus::deserialize and Description::text *)

\* the integers of the documents: in and out of the u16 range, of both signs
StatusInts == {0, 3, 763, U16Max, U16Max + 1, 70000, -1, I32Max, I32Min}

\* "A Server"
AServer == <<65, 32, 83, 101, 114, 118, 101, 114>>

\* "Another Server"
AnotherServer == <<65, 110, 111, 116, 104, 101, 114, 32, 83, 101, 114, 118, 101, 114>>

\* the values of "description": the two shapes, an object with more than
\* "text", one without it, and values of other types
Descriptions ==
    {JStr(AServer),
     JObj(<<[k |-> "text", v |-> JStr(AnotherServer)]>>),
     JObj(<<[k |-> "color", v |-> JStr(<<114, 101, 100>>)],
            [k |-> "text", v |-> JStr(AnotherServer)]>>),
     JObj(<<[k |-> "translate", v |-> JStr(AServer)]>>),
     JObj(<<[k |-> "text", v |-> JInt(1)]>>),
     JInt(7),
     JNull}

\* a player of the sample: {"name": "Al", "id": "7"}
APlayer == JObj(<<[k |-> "name", v |-> JStr(<<65, 108>>)],
                  [k |-> "id", v |-> JStr(<<55>>)]>>)

\* the members of "players" after "online": none, an empty sample, a
\* sample of one player, a sample that is null, a player without an id
Samples ==
    {<<>>,
     <<[k |-> "sample", v |-> JArr(<<>>)]>>,
     <<[k |-> "sample", v |-> JArr(<<APlayer>>)]>>,
     <<[k |-> "sample", v |-> JNull]>>,
     <<[k |-> "sample", v |-> JArr(<<JObj(<<[k |-> "name", v |-> JStr(<<65, 108>>)]>>)>>)]>>}

\* the documents: those of the documented shape, and some that are not
StatusDocs ==
    {status_doc(p, m, o, d, s) :
        p \in StatusInts, m \in StatusInts, o \in StatusInts,
        d \in Descriptions, s \in Samples}
    \cup {JObj(<<>>), JNull, JArr(<<>>),
          JObj(<<[k |-> "description", v |-> JStr(AServer)]>>),
          JObj(<<[k |-> "description", v |-> JStr(AServer)],
                 [k |-> "description", v |-> JStr(AServer)]>>)}

not_status ==
    <<pc, codec_vars, stream_vars, ping_vars, conc_vars, online_vars,
      backup_vars, repo_vars>>

\* serde hands a document to ServerStatus::deserialize
Deserialize ==
    /\ parsed = NoRet
    /\ \E d \in StatusDocs :
          /\ doc' = d
          /\ parsed' = de_ServerStatus(d)
    /\ shown' = NoShown
    /\ UNCHANGED not_status

\* status.description.text() is called on the parsed status
DescriptionText ==
    /\ parsed.tag = "Ok"
    /\ shown = NoShown
    /\ shown' = Description_text(parsed.val.description)
    /\ UNCHANGED <<doc, parsed, not_status>>

\* the result goes out of scope
DropStatus ==
    /\ parsed # NoRet
    /\ doc' = <<>>
    /\ parsed' = NoRet
    /\ shown' = NoShown
    /\ UNCHANGED not_status

StatusNext == Deserialize \/ DescriptionText \/ DropStatus

StatusSpec == Init /\ [][StatusNext]_vars

-----------------------------------------------------------------------------
(* Calls of ping_server (mc_server/mod.rs) at the same time.  Every call    *)
(* has its own locals and its own TcpStream; a step of a call is one        *)
(* blocking call of the code.  What the resolver, the network and the       *)
(* server do for a call is fixed when the call is made (inp), so that the   *)
(* call can be compared with the same call running alone.  Socket options   *)
(* and writes succeed here.                                                 *)

\* what read_exact ends with when the stream has no more bytes for it
end_error(ends, part) ==
    IF ends = "eof" THEN read_exact_eof(part)
    ELSE Err("WouldBlock", "read timed out")

\* read_varint(stream) over the bytes a stream delivers, from the i-th on:
\* the value, and the index of the byte after it
RECURSIVE read_varint_over(_, _, _, _, _)
read_varint_over(bytes, i, res, sh, ends) ==
    IF i > Len(bytes) THEN end_error(ends, <<>>)
    ELSE LET p == process_varint_byte(bytes[i], res, sh)
         IN  CASE p.st = "err" -> p.err
               [] p.st = "more" -> read_varint_over(bytes, i + 1, p.result, p.shift, ends)
               [] OTHER -> Ok([value |-> p.result, next |-> i + 1])

\* read_packet(stream) over all the bytes the stream delivers
read_packet_over(bytes, ends) ==
    LET l == read_varint_over(bytes, 1, 0, 0, ends)
    IN  IF l.tag # "Ok" THEN l
        ELSE IF alloc_fails(l.val.value) THEN Panic("capacity overflow")
        ELSE IF Len(bytes) - (l.val.next - 1) < l.val.value
        THEN end_error(ends, SubSeq(bytes, l.val.next, Len(bytes)))
        ELSE Ok(SubSeq(bytes, l.val.next, l.val.next + l.val.value - 1))

\* ping_server(address) of mc_server/mod.rs run from beginning to end, alone
ping_server(inp) ==
    LET addrs == to_socket_addrs(inp.address, inp.answer)
        resp  == read_packet_over(inp.reply, inp.ends)
    IN  IF addrs.tag # "Ok" THEN resolve_error(addrs)
        ELSE IF addrs.val = <<>> THEN no_address_error
        ELSE IF inp.connect.tag # "Ok" THEN connect_error(inp.connect)
        ELSE IF resp.tag = "Panic" THEN PingPanic(resp)
        ELSE IF resp.tag = "Err" THEN from_io_error(resp)
        ELSE parse_response("mod", resp.val, inp.oc)

\* "mc:25565"
McAddress == <<109, 99, 58, 50, 53, 53, 54, 53>>

\* what a call may meet: a status, a frame cut short by the end of the
\* stream, a frame of length 0, an address without a port, a refused
\* connection
ConcInputs ==
    LET at_mc == [address |-> McAddress,
                  answer |-> Ok(<< <<192, 168, 1, 20>> >>),
                  connect |-> Ok(NoVal), reply |-> <<>>, ends |-> "eof", oc |-> FALSE]
    IN  {[at_mc EXCEPT !.reply = reply(0, StatusJson)],
         [at_mc EXCEPT !.reply = <<4, 0, 2>>],
         [at_mc EXCEPT !.reply = <<0>>, !.ends = "timeout"],
         [at_mc EXCEPT !.address = <<109, 99>>],
         [at_mc EXCEPT !.connect = Err("ConnectionRefused", "connection refused")]}

\* the connection call i reads and writes: any open connection to its
\* address, its own or one another call has made
stream_of_shared(i) ==
    LET open == {c \in 1..Len(net) :
                    net[c].state = "open" /\ net[c].to = pings[i].addr}
    IN  IF open = {} THEN pings[i].stream ELSE Least(open)

\* the connection call i reads and writes: `stream`, which it made itself
stream_of(i) == pings[i].stream

not_conc ==
    <<pc, codec_vars, stream_vars, ping_vars, status_vars, online_vars,
      backup_vars, repo_vars>>

\* call i ends with r; its locals are dropped, its stream with them
Ends(i, r) ==
    /\ pings' = [pings EXCEPT ![i].step = "returned", ![i].ret = r,
                              ![i].handshake = <<>>, ![i].rd = NoRead]
    /\ net' = IF pings[i].stream = 0 THEN net
              ELSE [net EXCEPT ![pings[i].stream].state = "closed"]

\* ping_server(address) is called on a thread of its own
ConcCall(i) ==
    /\ pings[i].step = "idle"
    /\ \E inp \in ConcInputs :
          pings' = [pings EXCEPT ![i].step = "resolve", ![i].inp = inp]
    /\ UNCHANGED <<net, not_conc>>

\* address.to_socket_addrs(), addrs.next()
ConcResolve(i) ==
    /\ pings[i].step = "resolve"
    /\ LET addrs == to_socket_addrs(pings[i].inp.address, pings[i].inp.answer)
       IN  IF addrs.tag # "Ok" THEN Ends(i, resolve_error(addrs))
           ELSE IF addrs.val = <<>> THEN Ends(i, no_address_error)
           ELSE /\ pings' = [pings EXCEPT ![i].step = "connect",
                                          ![i].addr = addrs.val[1]]
                /\ UNCHANGED net
    /\ UNCHANGED not_conc

\* TcpStream::connect_timeout, set_read_timeout, set_write_timeout
ConcConnect(i) ==
    /\ pings[i].step = "connect"
    /\ IF pings[i].inp.connect.tag # "Ok"
       THEN Ends(i, connect_error(pings[i].inp.connect))
       ELSE /\ net' = Append(net, [owner |-> i, to |-> pings[i].addr,
                                   state |-> "open", written |-> <<>>,
                                   script |-> pings[i].inp.reply,
                                   ends |-> pings[i].inp.ends,
                                   inbound |-> <<>>, sends |-> 0])
            /\ pings' = [pings EXCEPT ![i].step = "send_handshake",
                                      ![i].stream = Len(net) + 1]
    /\ UNCHANGED not_conc

\* the handshake is built and sent
ConcSendHandshake(i) ==
    /\ pings[i].step = "send_handshake"
    /\ LET h == build_handshake(pings[i].addr, pings[i].inp.address)
       IN  /\ pings' = [pings EXCEPT ![i].step = "send_status_request",
                                     ![i].handshake = h]
           /\ net' = [net EXCEPT ![stream_of(i)].written = Append(@, packet_of(h))]
    /\ UNCHANGED not_conc

\* the status request is sent
ConcSendStatusRequest(i) ==
    /\ pings[i].step = "send_status_request"
    /\ pings' = [pings EXCEPT ![i].step = "read_varint"]
    /\ net' = [net EXCEPT
                  ![stream_of(i)].written = Append(@, packet_of(status_request))]
    /\ UNCHANGED not_conc

\* the server of connection c sends, once the packets of the client are
\* there: its first byte or all its bytes, and then the rest
ConcServerSend(c) ==
    /\ net[c].state = "open"
    /\ Len(net[c].written) = 2
    /\ net[c].inbound = <<>> /\ net[c].script # <<>>
    /\ \E k \in IF net[c].sends = 0 THEN {1, Len(net[c].script)}
                                    ELSE {Len(net[c].script)} :
          net' = [net EXCEPT ![c].inbound = SubSeq(net[c].script, 1, k),
                             ![c].sends = @ + 1,
                             ![c].script = SubSeq(net[c].script, k + 1,
                                                  Len(net[c].script))]
    /\ UNCHANGED <<pings, not_conc>>

\* read_varint takes a byte off the stream; with the length complete
\* read_packet makes its buffer
ConcReadVarintByte(i) ==
    /\ pings[i].step = "read_varint"
    /\ net[stream_of(i)].inbound # <<>>
    /\ LET s  == stream_of(i)
           rd0 == pings[i].rd
           p  == process_varint_byte(Head(net[s].inbound), rd0.result, rd0.shift)
       IN  CASE p.st = "err" -> Ends(i, from_io_error(p.err))
             [] p.st = "more" ->
                  /\ pings' = [pings EXCEPT ![i].rd.result = p.result,
                                            ![i].rd.shift = p.shift]
                  /\ net' = [net EXCEPT ![s].inbound = Tail(@)]
             [] OTHER ->
                  IF alloc_fails(p.result)
                  THEN Ends(i, PingPanic(Panic("capacity overflow")))
                  ELSE /\ pings' = [pings EXCEPT ![i].step = "read_payload",
                                                 ![i].rd.result = p.result,
                                                 ![i].rd.shift = p.shift,
                                                 ![i].rd.length = p.result]
                       /\ net' = [net EXCEPT ![s].inbound = Tail(@)]
    /\ UNCHANGED not_conc

\* read_exact(&mut buffer) takes the bytes that have arrived
ConcReadPayload(i) ==
    /\ pings[i].step = "read_payload"
    /\ Len(pings[i].rd.filled) < pings[i].rd.length
    /\ net[stream_of(i)].inbound # <<>>
    /\ LET s    == stream_of(i)
           want == pings[i].rd.length - Len(pings[i].rd.filled)
           k    == IF Len(net[s].inbound) < want THEN Len(net[s].inbound) ELSE want
       IN  /\ pings' = [pings EXCEPT
                           ![i].rd.filled = @ \o SubSeq(net[s].inbound, 1, k)]
           /\ net' = [net EXCEPT
                         ![s].inbound = SubSeq(@, k + 1, Len(@))]
    /\ UNCHANGED not_conc

\* a read_exact of call i finds the stream at its end, or silent for 10 s
ConcReadEnds(i) ==
    /\ \/ pings[i].step = "read_varint"
       \/ /\ pings[i].step = "read_payload"
          /\ Len(pings[i].rd.filled) < pings[i].rd.length
    /\ net[stream_of(i)].inbound = <<>>
    /\ net[stream_of(i)].script = <<>>
    /\ Ends(i, from_io_error(end_error(net[stream_of(i)].ends, pings[i].rd.filled)))
    /\ UNCHANGED not_conc

\* read_packet returns; the response is read as a string and a status
ConcParse(i) ==
    /\ pings[i].step = "read_payload"
    /\ Len(pings[i].rd.filled) = pings[i].rd.length
    /\ pings' = [pings EXCEPT
                    ![i].step = "returned",
                    ![i].response = pings[i].rd.filled,
                    ![i].ret = parse_response("mod", pings[i].rd.filled,
                                              pings[i].inp.oc),
                    ![i].handshake = <<>>,
                    ![i].rd = NoRead]
    /\ net' = [net EXCEPT ![pings[i].stream].state = "closed"]
    /\ UNCHANGED not_conc

ConcNext ==
    \/ \E i \in Pings :
          \/ ConcCall(i)
          \/ ConcResolve(i)
          \/ ConcConnect(i)
          \/ ConcSendHandshake(i)
          \/ ConcSendStatusRequest(i)
          \/ ConcReadVarintByte(i)
          \/ ConcReadPayload(i)
          \/ ConcReadEnds(i)
          \/ ConcParse(i)
    \/ \E c \in 1..Len(net) : ConcServerSend(c)

ConcSpec == Init /\ [][ConcNext]_vars

-----------------------------------------------------------------------------
(* The /online command (commands/online.rs:10-59).  The handler is a task   *)
(* on the event loop; between two of its awaits it holds the loop's thread. *)

\* a status with players in its sample: "Al" and "Bo"
StatusWithPlayers ==
    [StatusValue EXCEPT
        !.players.sample = <<[name |-> <<65, 108>>, id |-> <<55>>],
                             [name |-> <<66, 111>>, id |-> <<56>>]>>,
        !.description = [shape |-> "Object", text |-> AnotherServer]]

\* what ping_server may end with in the task
OnlineOutcomes ==
    {PingOk(StatusValue), PingOk(StatusWithPlayers),
     resolve_error(Err("InvalidInput", "invalid socket address")),
     connect_error(Err("ConnectionRefused", "connection refused")),
     from_io_error(Err("WouldBlock", "read timed out")),
     parse_error(Err("Data", "missing field version")),
     PingPanic(Panic("range start index 1 out of range for slice of length 0"))}

\* what a call of the Discord API ends with
DiscordResults == {Ok(NoVal), Err("Discord", "http error")}

\* tokio's JoinError: the task panicked, or was cancelled before it ran
JoinError(why) ==
    [tag |-> "JoinErr", val |-> NoVal, kind |-> why, msg |-> "", source |-> NoSource,
     at |-> ""]

\* players.join(", ")
RECURSIVE join(_)
join(names) ==
    IF names = <<>> THEN <<>>
    ELSE IF Len(names) = 1 THEN names[1]
    ELSE names[1] \o <<44, 32>> \o join(Tail(names))

\* the message built for Ok(Ok(status)): the fields format! puts into it
status_message(status) ==
    [kind |-> "Minecraft Server Status",
     version |-> status.version.name,
     online |-> status.players.online,
     max |-> status.players.max,
     description |-> Description_text(status.description),
     player_list |->
        IF status.players.sample # <<>>
        THEN [heading |-> "Players online:",
              players |-> join([i \in 1..Len(status.players.sample) |->
                                   status.players.sample[i].name])]
        ELSE [heading |-> "", players |-> <<>>]]

\* the message said for `result`, every error as "Error: {e}"
message_for_plain(r) ==
    IF r.tag = "Ok" THEN status_message(r.val)
    ELSE [kind |-> "Error: ", e |-> r]

\* the message said for `result`
message_for(r) ==
    CASE r.tag = "Ok" -> status_message(r.val)
      [] r.tag = "Err" -> [kind |-> "Failed to connect to server: ", e |-> r]
      [] r.tag = "JoinErr" -> [kind |-> "Error: ", e |-> r]

\* the thread that runs the closure when it is called where it stands
executor_inline == "event_loop"

\* the thread that runs the closure handed to tokio::task::spawn_blocking
executor == "blocking"

not_online ==
    <<pc, codec_vars, stream_vars, ping_vars, status_vars, conc_vars,
      backup_vars, repo_vars>>

\* /online is invoked
OnlineCall ==
    /\ ostep = "idle"
    /\ ostep' = "defer"
    /\ UNCHANGED <<task, ran_on, oresult, says, oret, others, not_online>>

\* context.defer().await?
Defer ==
    /\ ostep = "defer"
    /\ \E io \in DiscordResults :
          IF io.tag = "Ok"
          THEN ostep' = "spawn" /\ UNCHANGED oret
          ELSE ostep' = "returned" /\ oret' = io
    /\ UNCHANGED <<task, ran_on, oresult, says, others, not_online>>

\* tokio::task::spawn_blocking(move || ping_server(&server_address))
SpawnBlocking ==
    /\ ostep = "spawn"
    /\ ostep' = "await"
    /\ task' = "queued"
    /\ UNCHANGED <<ran_on, oresult, says, oret, others, not_online>>

\* the executor starts the closure
TaskStarts ==
    /\ task = "queued"
    /\ task' = "running"
    /\ ran_on' = executor
    /\ UNCHANGED <<ostep, oresult, says, oret, others, not_online>>

\* the runtime drops the task before it ran
TaskCancelled ==
    /\ task = "queued"
    /\ task' = "cancelled"
    /\ oresult' = JoinError("cancelled")
    /\ UNCHANGED <<ostep, ran_on, says, oret, others, not_online>>

\* ping_server returns, or panics, in the task
TaskEnds ==
    /\ task = "running"
    /\ \E r \in OnlineOutcomes :
          IF r.tag = "Panic"
          THEN task' = "panicked" /\ oresult' = JoinError("panic")
          ELSE task' = "finished" /\ oresult' = r
    /\ UNCHANGED <<ostep, ran_on, says, oret, others, not_online>>

\* the thread of the event loop is held: the handler is between two awaits,
\* or ping_server runs on it
LoopHeld ==
    \/ ostep \in {"spawn", "match"}
    \/ task = "running" /\ ran_on = "event_loop"

\* another task has a turn on the event loop
OtherTask ==
    /\ ~LoopHeld
    /\ ostep # "idle"
    /\ others < MaxOthers
    /\ others' = others + 1
    /\ UNCHANGED <<ostep, task, ran_on, oresult, says, oret, not_online>>

\* .await on the JoinHandle is ready
Joined ==
    /\ ostep = "await"
    /\ task \in {"finished", "panicked", "cancelled"}
    /\ ostep' = "match"
    /\ UNCHANGED <<task, ran_on, oresult, says, oret, others, not_online>>

\* match result { .. context.say(..).await? .. }, then Ok(())
Say ==
    /\ ostep = "match"
    /\ \E io \in DiscordResults :
          /\ says' = Append(says, [message |-> message_for(oresult), io |-> io])
          /\ oret' = io
    /\ ostep' = "returned"
    /\ UNCHANGED <<task, ran_on, oresult, others, not_online>>

OnlineNext ==
    \/ OnlineCall
    \/ Defer
    \/ SpawnBlocking
    \/ TaskStarts
    \/ TaskCancelled
    \/ TaskEnds
    \/ OtherTask
    \/ Joined
    \/ Say

OnlineSpec == Init /\ [][OnlineNext]_vars

-----------------------------------------------------------------------------
(* The /backup command (commands/backup.rs:21-125): the rate-limit gate     *)
(* under the two write locks, then the lookup and the publishing.           *)

\* GLOBAL_COOLDOWN: Duration::from_secs(2 * 60 * 60)
GLOBAL_COOLDOWN == 7200
\* COOLDOWN_DURATION: Duration::from_secs(24 * 60 * 60)
COOLDOWN_DURATION == 86400

\* the moments at which the clock is read: the second before the end of
\* each cooldown and the end itself, counted from the start and again from
\* the end of every 24 hours
moment(k) ==
    (k \div 4) * COOLDOWN_DURATION +
    (CASE k % 4 = 0 -> 0
       [] k % 4 = 1 -> GLOBAL_COOLDOWN - 1
       [] k % 4 = 2 -> GLOBAL_COOLDOWN
       [] k % 4 = 3 -> COOLDOWN_DURATION - 1)

\* Instant::elapsed
elapsed(last_time) == clock - last_time.at

\* `if let Some(last_time) = .. { if elapsed < cooldown`
on_cooldown(last_time, cooldown) ==
    last_time.some /\ elapsed(last_time) < cooldown

\* the cooldown message: remaining = cooldown - elapsed, in hours and minutes
cooldown_message(kind, last_time, cooldown) ==
    [kind |-> kind,
     hours |-> (cooldown - elapsed(last_time)) \div 3600,
     minutes |-> ((cooldown - elapsed(last_time)) % 3600) \div 60]

\* RwLock::write is granted whoever holds the lock
granted_always(writer) == TRUE

\* RwLock::write is granted when nobody holds the lock
granted(writer) == writer = NoWriter

\* HashMap::insert that keeps the value of a key already present
insert_if_absent(map, k, v) ==
    IF map[k].some THEN map ELSE [map EXCEPT ![k] = SomeInstant(v)]

\* HashMap::insert
insert(map, k, v) == [map EXCEPT ![k] = SomeInstant(v)]

\* what the lookup of the most recent backup file gives
FindOutcomes == {"Some", "None", "JoinError"}

\* what publishing gives
PublishOutcomes == {"Ok", "Err", "JoinError"}

not_backup ==
    <<pc, codec_vars, stream_vars, ping_vars, status_vars, conc_vars,
      online_vars, repo_vars>>

\* the clock moves
Tick ==
    /\ ticks < MaxTicks
    /\ \E i \in Invocations : backups[i].at # "idle"
    /\ clock' = moment(ticks + 1)
    /\ ticks' = ticks + 1
    /\ UNCHANGED <<last_backup_time, last_global_backup_time, map_writer,
                   global_writer, backups, not_backup>>

\* a user invokes /backup: the handler asks for the write lock of the map
Invoke(i) ==
    /\ backups[i].at = "idle"
    /\ \A j \in Invocations : j < i => backups[j].at # "idle"
    /\ \E u \in UserIds :
          backups' = [backups EXCEPT ![i].user = u, ![i].at = "lock_map"]
    /\ UNCHANGED <<clock, ticks, last_backup_time, last_global_backup_time,
                   map_writer, global_writer, not_backup>>

\* last_backup_time.write().await is granted
LockMap(i) ==
    /\ backups[i].at = "lock_map"
    /\ granted(map_writer)
    /\ map_writer' = i
    /\ backups' = [backups EXCEPT ![i].at = "check_user"]
    /\ UNCHANGED <<clock, ticks, last_backup_time, last_global_backup_time,
                   global_writer, not_backup>>

\* the check of the user's cooldown; on cooldown the message is sent
CheckUser(i) ==
    /\ backups[i].at = "check_user"
    /\ LET last_time == last_backup_time[backups[i].user]
       IN  IF on_cooldown(last_time, COOLDOWN_DURATION)
           THEN backups' = [backups EXCEPT
                    ![i].at = "say_cooldown",
                    ![i].said = cooldown_message("cooldown", last_time,
                                                 COOLDOWN_DURATION)]
           ELSE backups' = [backups EXCEPT ![i].at = "lock_global"]
    /\ UNCHANGED <<clock, ticks, last_backup_time, last_global_backup_time,
                   map_writer, global_writer, not_backup>>

\* last_global_backup_time.write().await is granted
LockGlobal(i) ==
    /\ backups[i].at = "lock_global"
    /\ granted(global_writer)
    /\ global_writer' = i
    /\ backups' = [backups EXCEPT ![i].at = "check_global"]
    /\ UNCHANGED <<clock, ticks, last_backup_time, last_global_backup_time,
                   map_writer, not_backup>>

\* the check of the global cooldown; on cooldown the message is sent
CheckGlobal(i) ==
    /\ backups[i].at = "check_global"
    /\ IF on_cooldown(last_global_backup_time, GLOBAL_COOLDOWN)
       THEN backups' = [backups EXCEPT
                ![i].at = "say_cooldown",
                ![i].said = cooldown_message("globally on cooldown",
                                last_global_backup_time, GLOBAL_COOLDOWN)]
       ELSE backups' = [backups EXCEPT ![i].at = "update"]
    /\ UNCHANGED <<clock, ticks, last_backup_time, last_global_backup_time,
                   map_writer, global_writer, not_backup>>

\* the guards held by an invocation are dropped
released(writer, i) == IF writer = i THEN NoWriter ELSE writer

\* context.say(cooldown message).await?; return: the guards are dropped
SayCooldown(i) ==
    /\ backups[i].at = "say_cooldown"
    /\ \E io \in DiscordResults :
          backups' = [backups EXCEPT ![i].at = "returned", ![i].ret = io]
    /\ map_writer' = released(map_writer, i)
    /\ global_writer' = released(global_writer, i)
    /\ UNCHANGED <<clock, ticks, last_backup_time, last_global_backup_time,
                   not_backup>>

\* let now = Instant::now(); both timestamps are set and both guards dropped
UpdateTimes(i) ==
    /\ backups[i].at = "update"
    /\ last_backup_time' = insert(last_backup_time, backups[i].user, clock)
    /\ last_global_backup_time' = SomeInstant(clock)
    /\ map_writer' = released(map_writer, i)
    /\ global_writer' = released(global_writer, i)
    /\ backups' = [backups EXCEPT ![i].now = SomeInstant(clock),
                                  ![i].at = "defer"]
    /\ UNCHANGED <<clock, ticks, not_backup>>

\* context.defer().await?
BackupDefer(i) ==
    /\ backups[i].at = "defer"
    /\ \E io \in DiscordResults :
          IF io.tag = "Ok"
          THEN backups' = [backups EXCEPT ![i].at = "find"]
          ELSE backups' = [backups EXCEPT ![i].at = "returned", ![i].ret = io]
    /\ UNCHANGED <<clock, ticks, last_backup_time, last_global_backup_time,
                   map_writer, global_writer, not_backup>>

\* spawn_blocking(find_most_recent_backup).await?, and the message when
\* there is no backup
FindBackup(i) ==
    /\ backups[i].at = "find"
    /\ \E f \in FindOutcomes :
          CASE f = "Some" ->
                  backups' = [backups EXCEPT ![i].at = "publish", ![i].found = f]
            [] f = "None" ->
                  \E io \in DiscordResults :
                      backups' = [backups EXCEPT
                          ![i].at = "returned", ![i].found = f,
                          ![i].said = [NoMessage EXCEPT !.kind = "No backup found"],
                          ![i].ret = io]
            [] f = "JoinError" ->
                  backups' = [backups EXCEPT
                      ![i].at = "returned", ![i].found = f,
                      ![i].ret = Err("JoinError", "task failed")]
    /\ UNCHANGED <<clock, ticks, last_backup_time, last_global_backup_time,
                   map_writer, global_writer, not_backup>>

\* spawn_blocking(publish_backup).await??, and the message with the link
Publish(i) ==
    /\ backups[i].at = "publish"
    /\ \E pb \in PublishOutcomes :
          CASE pb = "Ok" ->
                  \E io \in DiscordResults :
                      backups' = [backups EXCEPT
                          ![i].at = "returned",
                          ![i].said = [NoMessage EXCEPT
                                          !.kind = "Backup ready for download"],
                          ![i].ret = io]
            [] pb = "Err" ->
                  backups' = [backups EXCEPT
                      ![i].at = "returned",
                      ![i].ret = Err("Publish", "io error")]
            [] pb = "JoinError" ->
                  backups' = [backups EXCEPT
                      ![i].at = "returned",
                      ![i].ret = Err("JoinError", "task failed")]
    /\ UNCHANGED <<clock, ticks, last_backup_time, last_global_backup_time,
                   map_writer, global_writer, not_backup>>

BackupNext ==
    \/ Tick
    \/ \E i \in Invocations :
          \/ Invoke(i)
          \/ LockMap(i)
          \/ CheckUser(i)
          \/ LockGlobal(i)
          \/ CheckGlobal(i)
          \/ SayCooldown(i)
          \/ UpdateTimes(i)
          \/ BackupDefer(i)
          \/ FindBackup(i)
          \/ Publish(i)

BackupSpec == Init /\ [][BackupNext]_vars

-----------------------------------------------------------------------------
(* The player repository (database.rs:92-246).  Every call opens its own    *)
(* connection in a blocking task and executes one SQL statement, which      *)
(* SQLite applies whole or not at all.                                      *)

\* the UUIDs and usernames handed to the repository
Uuids == {"uuid-1", "uuid-2"}
Usernames == {"OldUsername", "NewUsername"}

\* MinecraftPlayer
MinecraftPlayer(uuid, username) == [uuid |-> uuid, username |-> username]

\* Option<MinecraftPlayer>
NoPlayer == [some |-> FALSE, uuid |-> "", username |-> ""]
SomePlayer(row) == [some |-> TRUE, uuid |-> row.mc_uuid, username |-> row.mc_username]

\* what opening the connection and executing the statement may fail with
DatabaseErrors == {Err("Database", "unable to open database file")}

\* ON CONFLICT(mc_uuid): a row with this primary key is stored
conflict(rows, uuid) == \E i \in 1..Len(rows) : rows[i].mc_uuid = uuid

\* INSERT INTO minecraft_users (mc_uuid, mc_username) VALUES (?1, ?2) on a
\* table without the primary key
insert_row(rows, player) ==
    Append(rows, [mc_uuid |-> player.uuid, mc_username |-> player.username])

\* INSERT INTO minecraft_users (mc_uuid, mc_username) VALUES (?1, ?2)
\* ON CONFLICT(mc_uuid) DO UPDATE SET mc_username = ?2
insert_or_update(rows, player) ==
    IF conflict(rows, player.uuid)
    THEN [i \in 1..Len(rows) |->
             IF rows[i].mc_uuid = player.uuid
             THEN [rows[i] EXCEPT !.mc_username = player.username]
             ELSE rows[i]]
    ELSE Append(rows, [mc_uuid |-> player.uuid, mc_username |-> player.username])

\* DELETE FROM minecraft_users WHERE mc_uuid = ?1
delete_where(rows, uuid) == SelectSeq(rows, LAMBDA row : row.mc_uuid # uuid)

\* SELECT mc_uuid, mc_username FROM minecraft_users WHERE mc_uuid = ?1, and
\* rows.next(): the first row, if any
select_by_uuid(rows, uuid) ==
    IF conflict(rows, uuid)
    THEN SomePlayer(rows[Least({i \in 1..Len(rows) : rows[i].mc_uuid = uuid})])
    ELSE NoPlayer

\* an entry of the history
Called(op, uuid, username, returned, rows) ==
    [op |-> op, uuid |-> uuid, username |-> username, ret |-> returned,
     rows |-> rows]

not_repo ==
    <<pc, codec_vars, stream_vars, ping_vars, status_vars, conc_vars,
      online_vars, backup_vars>>

\* upsert_player(player)
upsert_player ==
    /\ Len(history) < MaxRepoCalls
    /\ \E uuid \in Uuids, username \in Usernames :
          \/ /\ minecraft_users' =
                   insert_or_update(minecraft_users, MinecraftPlayer(uuid, username))
             /\ history' = Append(history,
                   Called("upsert_player", uuid, username, Ok(NoVal), minecraft_users'))
          \/ \E e \in DatabaseErrors :
                /\ history' = Append(history,
                      Called("upsert_player", uuid, username, e, minecraft_users))
                /\ UNCHANGED minecraft_users
    /\ UNCHANGED not_repo

\* delete_player(uuid)
delete_player ==
    /\ Len(history) < MaxRepoCalls
    /\ \E uuid \in Uuids :
          \/ /\ minecraft_users' = delete_where(minecraft_users, uuid)
             /\ history' = Append(history,
                   Called("delete_player", uuid, "", Ok(NoVal), minecraft_users'))
          \/ \E e \in DatabaseErrors :
                /\ history' = Append(history,
                      Called("delete_player", uuid, "", e, minecraft_users))
                /\ UNCHANGED minecraft_users
    /\ UNCHANGED not_repo

\* get_player_by_uuid(uuid)
get_player_by_uuid ==
    /\ Len(history) < MaxRepoCalls
    /\ \E uuid \in Uuids :
          \/ history' = Append(history,
                Called("get_player_by_uuid", uuid, "",
                       Ok(select_by_uuid(minecraft_users, uuid)), minecraft_users))
          \/ \E e \in DatabaseErrors :
                history' = Append(history,
                   Called("get_player_by_uuid", uuid, "", e, minecraft_users))
    /\ UNCHANGED minecraft_users
    /\ UNCHANGED not_repo

RepoNext ==
    \/ upsert_player
    \/ delete_player
    \/ get_player_by_uuid

RepoSpec == Init /\ [][RepoNext]_vars

-----------------------------------------------------------------------------
(* Properties of the codec *)

\* a byte with its continuation bit set
HasCont(b) == b >= 128

\* the slice decoder has returned / read_string has returned
VarintDecoded == pc = "done" /\ reader = "read_varint_from_slice"

StringDecoded == pc = "done" /\ reader = "read_string"

\* protocol.rs write_varint has returned and its bytes were decoded again
VarintRoundTripped ==
    VarintDecoded /\ call.op = "write_varint" /\ call.impl = "protocol"

\* C1: decoding the bytes that protocol.rs write_varint(v) produced with
\* read_varint_from_slice gives exactly v, and the bytes consumed are all
\* the bytes written.
C1_VarIntRoundTrip ==
    VarintRoundTripped => ret = Ok(<<call.v, Len(buf)>>)

C1_Witness ==
    /\ VarintRoundTripped
    /\ call.v = I32Min
    /\ ret = Ok(<<I32Min, 5>>)

\* C2: write_varint terminates on every i32, negative ones included, having
\* appended between 1 and 5 bytes: no write_varint loop makes more than five
\* passes, and after the fifth pass the loop has been left.
C2_WriteVarintAtMostFiveBytes ==
    call.op = "write_varint" =>
        /\ Len(buf) <= 5
        /\ (Len(buf) = 5 => pc # "write_varint")
        /\ (pc # "write_varint" => Len(buf) >= 1)

\* the same, of protocol.rs write_varint alone
WriteVarintProtocolAtMostFiveBytes ==
    (call.op = "write_varint" /\ call.impl = "protocol") =>
        /\ Len(buf) <= 5
        /\ (Len(buf) = 5 => pc # "write_varint")
        /\ (pc # "write_varint" => Len(buf) >= 1)

\* bits 7(i-1) .. 7i-1 of the 32-bit two's-complement pattern of v
Group(v, i) ==
    IF i = 5 THEN (v \div (2 ^ 28)) % 16 ELSE (v \div (2 ^ (7 * (i - 1)))) % 128

\* b is the reference VarInt of v: 7 payload bits per byte, lowest group
\* first, the high bit set exactly on the bytes that another byte follows,
\* and no more bytes than the pattern needs
IsReferenceVarInt(b, v) ==
    /\ Len(b) \in 1..5
    /\ \A i \in 1..Len(b) : b[i] % 128 = Group(v, i)
    /\ \A i \in 1..Len(b) : HasCont(b[i]) <=> i < Len(b)
    /\ \A i \in (Len(b) + 1)..5 : Group(v, i) = 0
    /\ Len(b) > 1 => Group(v, Len(b)) # 0

\* protocol.rs write_varint has returned
VarintWritten ==
    pc = "ready" /\ call.op = "write_varint" /\ call.impl = "protocol"

\* C3: the bytes of protocol.rs write_varint(v) are the reference encoding of
\* v's 32-bit pattern taken as unsigned; 0 -> 00, 127 -> 7F, 128 -> 80 01,
\* -1 -> FF FF FF FF 0F.
C3_ReferenceEncoding ==
    VarintWritten =>
        /\ IsReferenceVarInt(buf, call.v)
        /\ (call.v = 0 => buf = <<0>>)
        /\ (call.v = 127 => buf = <<127>>)
        /\ (call.v = 128 => buf = <<128, 1>>)
        /\ (call.v = -1 => buf = <<255, 255, 255, 255, 15>>)

C3_Witness == VarintWritten /\ call.v = -1 /\ Len(buf) = 5

\* the first five bytes of the slice all have the continuation bit set
FiveContinuations(d) == Len(d) >= 5 /\ \A i \in 1..5 : HasCont(d[i])

\* C4: an input, slice or stream, whose first five bytes all have the
\* continuation bit set fails with VarIntTooLarge once exactly five bytes are
\* consumed, whatever follows: no sixth byte is read and the loop ends.
C4_VarIntOverflow ==
    /\ (pc = "done" /\ FiveContinuations(buf)) =>
           ret = VarIntTooLarge /\ consumed = 5
    /\ (pc = "stream" /\ FiveContinuations(rbytes)) =>
           rp = "returned" /\ rp_ret = VarIntTooLarge /\ Len(rbytes) = 5

C4_Witness ==
    /\ VarintDecoded
    /\ buf = <<255, 255, 255, 255, 255, 0>>
    /\ ret = VarIntTooLarge
    /\ consumed = 5

\* the same on a stream, a sixth byte left unread
C4_StreamOverflowReached ==
    /\ pc = "stream" /\ rp = "returned"
    /\ rbytes = <<255, 255, 255, 255, 255>>
    /\ rp_ret = VarIntTooLarge
    /\ wire # <<>>

\* every byte of the slice has the continuation bit set, and there are
\* fewer than five
Exhausted(d) == Len(d) <= 4 /\ \A i \in 1..Len(d) : HasCont(d[i])

\* C5: a slice that ends before a byte with a clear continuation bit (empty,
\* or 1 to 4 continuation bytes) fails with UnexpectedEndOfData; no value is
\* built from the partial bytes, and no index at or past the length is read.
C5_ExhaustedSlice ==
    /\ (VarintDecoded /\ Exhausted(buf)) =>
           ret = UnexpectedEndOfData /\ consumed = Len(buf)
    /\ VarintDecoded => consumed <= Len(buf) /\ ret.tag # "Panic"

C5_Witness ==
    VarintDecoded /\ buf = <<255, 255, 128>> /\ ret = UnexpectedEndOfData

\* the byte length of a string, from the widths of its chars
Utf8Width(c) == IF c < 128 THEN 1 ELSE IF c < 2048 THEN 2 ELSE IF c < 65536 THEN 3 ELSE 4

ByteLength(s) ==
    LET sum[i \in 0..Len(s)] == IF i = 0 THEN 0 ELSE sum[i - 1] + Utf8Width(s[i])
    IN  sum[Len(s)]

\* write_string's bytes were handed to read_string
StringRoundTripped == StringDecoded /\ call.op = "write_string"

\* C6: read_string of the bytes of write_string(s) returns s, for ASCII and
\* multi-byte strings; the prefix is the VarInt of the byte length of s, and
\* "test" is written as 04 't' 'e' 's' 't'.
C6_StringRoundTrip ==
    StringRoundTripped =>
        /\ ret = Ok(call.s)
        /\ LET n == ByteLength(call.s)
               k == Len(buf) - n
           IN  /\ k >= 1
               /\ IsReferenceVarInt(SubSeq(buf, 1, k), n)
        /\ (call.s = <<116, 101, 115, 116>> => buf = <<4, 116, 101, 115, 116>>)

C6_Witness ==
    /\ StringRoundTripped
    /\ call.s = Repeat(8364, 43)
    /\ SubSeq(buf, 1, 2) = <<129, 1>>
    /\ ret = Ok(call.s)

\* the prefix of the slice decodes to a length above the bytes left after it
DeclaresTooMuch(d) ==
    LET r == read_varint_from_slice(d).ret
    IN  r.tag = "Ok" /\ r.val[1] > Len(d) - r.val[2]

\* C7: when the length prefix declares more bytes than are left after it,
\* read_string returns TruncatedString: no panic, no shortened string.
C7_TruncatedString ==
    (StringDecoded /\ DeclaresTooMuch(buf)) => ret = TruncatedString

C7_Witness ==
    StringDecoded /\ buf = <<3, 116, 116>> /\ ret = TruncatedString

\* C8: the decoders are total: on every byte sequence they return a value or
\* an error and never panic, a negative length prefix included.
C8_DecodersTotal == pc = "done" => ret.tag \in {"Ok", "Err"}

-----------------------------------------------------------------------------
(* Properties of the framing *)

\* b is VarInt(byteLength(data)) followed by data
IsFrame(b, data) ==
    LET k == Len(b) - Len(data)
    IN  /\ k >= 1
        /\ IsReferenceVarInt(SubSeq(b, 1, k), Len(data))
        /\ SubSeq(b, k + 1, Len(b)) = data

IsPrefix(p, q) == Len(p) <= Len(q) /\ SubSeq(q, 1, Len(p)) = p

\* C9: send_packet(payload) writes exactly VarInt(byteLength(payload))
\* followed by payload; read_packet applied by the peer to the bytes of the
\* packets sent returns exactly the payloads, in order; a failure of the
\* write is returned as the I/O error.
C9_Framing ==
    wkind = "send_packet" =>
        /\ (last_write # NoWrite /\ last_write.io.tag = "Ok") =>
               /\ last_write.ret = Ok(NoVal)
               /\ IsFrame(last_write.bytes, last_write.data)
        /\ IsPrefix(got, payloads)
        /\ last_write.io.tag = "Err" => last_write.ret = last_write.io

C9_Witness ==
    /\ wkind = "send_packet"
    /\ Len(payloads) = 2
    /\ payloads[1] = LongPayload(128)
    /\ got = payloads

\* a failed write was reported
C9_WriteFailureReached ==
    /\ wkind = "send_packet"
    /\ last_write.io.tag = "Err"
    /\ last_write.ret = last_write.io
    /\ last_write.bytes # <<>>

\* C10: read_packet returns Ok(bytes) only with exactly as many payload bytes
\* as the prefix declared; when the stream ends or the read times out before
\* that, however the bytes were split over the reads, it returns an error
\* and never the partial data.
C10_ExactLength ==
    rp = "returned" =>
        /\ rp_ret.tag = "Ok" =>
               /\ stop = "none"
               /\ length >= 0
               /\ Len(rp_ret.val) = length
               /\ IsPrefix(rp_ret.val,
                           SubSeq(rbytes, Len(rbytes) - length + 1, Len(rbytes)))
        /\ stop # "none" => rp_ret.tag = "Err"

C10_Witness ==
    /\ rp = "returned"
    /\ stop = "eof"
    /\ Len(filled) >= 1
    /\ Len(filled) < length
    /\ rp_ret.tag = "Err"

\* the same by a timeout, after a packet was returned
C10_TimeoutReached ==
    /\ rp = "returned"
    /\ stop = "timeout"
    /\ Len(got) = 1
    /\ Len(filled) >= 1
    /\ rp_ret.tag = "Err"

-----------------------------------------------------------------------------
(* Properties of ping_server *)

InProgress == step \notin {"idle", "returned"}

\* the TcpStream of the call
ThisConn == conns[Len(conns)]

Count(q, x) == Cardinality({i \in 1..Len(q) : q[i] = x})

NoColon(s) == \A i \in 1..Len(s) : s[i] # 58

\* the host text of the caller's address string
InputHost ==
    IF NoColon(address) THEN address
    ELSE LET last == CHOOSE i \in 1..Len(address) :
                        /\ address[i] = 58
                        /\ \A j \in (i + 1)..Len(address) : address[j] # 58
         IN  SubSeq(address, 1, last - 1)

\* the fields of the first payload sent, read off its bytes: six bytes of
\* packet id and protocol version, a one-byte length, the host, the port
HandshakeHost == SubSeq(sent[1].data, 8, 7 + sent[1].data[7])

HandshakePort ==
    LET d == sent[1].data
    IN  d[8 + d[7]] * 256 + d[9 + d[7]]

\* C11: the handshake payload is VarInt 0, VarInt -1 (FF FF FF FF 0F), the
\* protocol string of the server address, the port of the connection as two
\* bytes with the high byte first, VarInt 1, and nothing else; it goes out as
\* one frame (its length, then the payload) in one write; the payload sent
\* after it is the single byte 0, and nothing more is sent
C11_HandshakePayload ==
    /\ Len(sent) <= 2
    /\ Count(ops, "write_all") = Len(sent)
    /\ Len(sent) >= 1 =>
          LET d == sent[1].data
              n == d[7]
              p == ThisConn.to.port
          IN  /\ Len(d) >= 10
              /\ SubSeq(d, 1, 6) = <<0, 255, 255, 255, 255, 15>>
              /\ n < 128
              /\ Len(d) = 7 + n + 3
              /\ \A i \in 8..(7 + n) : d[i] < 128
              /\ SubSeq(d, 8 + n, 9 + n) = <<p \div 256, p % 256>>
              /\ d[10 + n] = 1
              /\ Len(d) < 128
              /\ sent[1].packet = <<Len(d)>> \o d
    /\ Len(sent) = 2 =>
          /\ sent[1].io.tag = "Ok"
          /\ sent[2].data = <<0>>
          /\ sent[2].packet = <<1, 0>>

\* both packets went out, to a port that needs both of its bytes
C11_Witness ==
    /\ Len(sent) = 2
    /\ sent[2].io.tag = "Ok"
    /\ ThisConn.to.port = 25565

StepOrder ==
    <<"to_socket_addrs", "connect_timeout", "set_read_timeout", "set_write_timeout",
      "write_all", "write_all", "read_packet", "from_str">>

\* C13: the operations of a call happen in the order resolve, connect, set
\* read timeout, set write timeout (10 s each), send handshake, send status
\* request, read one packet, parse; each only after the ones before it
\* succeeded and at most once; Ok is returned only after all of them
C13_ExchangeOrder ==
    /\ IsPrefix(ops, StepOrder)
    /\ Len(ops) >= 2 => lookup.tag = "Ok" /\ lookup.val # <<>>
    /\ Len(ops) >= 3 => has_stream
    /\ Len(ops) >= 5 => ThisConn.read_timeout = 10 /\ ThisConn.write_timeout = 10
    /\ \A i \in 1..(Len(sent) - 1) : sent[i].io.tag = "Ok"
    /\ Len(ops) >= 7 => Len(sent) = 2 /\ sent[2].io.tag = "Ok"
    /\ pret.tag = "Ok" => step = "returned" /\ ops = StepOrder

\* a call returned Ok(status)
C13_Witness == step = "returned" /\ pret.tag = "Ok" /\ pret.val = StatusValue

\* C14: an error ends the call: when a step fails ping_server has returned
\* the error, with no status, and no network operation of the call follows
\* it; a call resolves, connects and reads a packet at most once and writes
\* at most two packets
C14_ErrorsTerminal ==
    [][/\ pret'.tag = "Err" => step' = "returned" /\ pret'.val = NoVal
       /\ (pret.tag = "Err" /\ calls' = calls) => UNCHANGED <<ops, sent, conns>>
       /\ Count(ops', "to_socket_addrs") <= 1
       /\ Count(ops', "connect_timeout") <= 1
       /\ Count(ops', "read_packet") <= 1
       /\ Len(sent') <= 2
       /\ Cardinality({i \in 1..Len(conns') : conns'[i].call = calls'}) <= 1]_vars

\* the status request could not be written, after the handshake went out
C14_Witness ==
    /\ step = "returned"
    /\ pret.tag = "Err"
    /\ pret.at = "send_status_request"
    /\ Len(sent) = 2

\* C15: when ping_server has returned, or unwound, the connection it opened
\* is closed: only the call in progress has an open connection, and every
\* call makes a connection of its own
C15_SocketReleased ==
    /\ ~InProgress => \A i \in 1..Len(conns) : conns[i].state = "closed"
    /\ \A i \in 1..Len(conns) :
          conns[i].state = "open" => i = Len(conns) /\ conns[i].call = calls
    /\ \A i, j \in 1..Len(conns) : i # j => conns[i].call # conns[j].call

\* two calls have each opened a connection and returned Ok
C15_Witness ==
    /\ step = "returned"
    /\ calls = 2
    /\ prev.tag = "Ok"
    /\ pret.tag = "Ok"
    /\ has_stream
    /\ ThisConn.state = "closed"

\* a call of mc_server/mod.rs has failed after its connection was made
C15_FailureReached ==
    /\ step = "returned"
    /\ pimpl = "mod"
    /\ pret.tag = "Err"
    /\ has_stream
    /\ pret.at = "read_payload"

\* mc_server/mod.rs never waits for ever: a read that waits gets bytes, the
\* end of the stream or its timeout (the other steps wait for nothing)
PingNeverBlocked == (Waiting /\ pimpl = "mod") => BytesWaiting \/ AtEof \/ TimesOut

\* C16: a call of ping_server (mc_server/mod.rs) never waits for ever, and
\* what it ends with is Ok or Err
C16_Termination ==
    /\ PingNeverBlocked
    /\ (step = "returned" /\ pimpl = "mod") => pret.tag \in {"Ok", "Err"}

IsConnectionFailed(r) == r.kind = "ServerProtocol" /\ r.msg = "Connection failed: "

\* the steps after the connect that do I/O on the stream
StreamSteps ==
    {"set_read_timeout", "set_write_timeout", "send_handshake",
     "send_status_request", "read_varint", "read_payload"}

C17_IoReached ==
    /\ pimpl = "mod"
    /\ pret.tag = "Err"
    /\ pret.at = "read_varint"
    /\ pret.source.kind = "WouldBlock"

\* two failures of mc_server/mod.rs, one call after the other, of two
\* categories
TwoCategories ==
    /\ pimpl = "mod"
    /\ pret.tag = "Err"
    /\ prev.tag = "Err"
    /\ prev.kind # "Box"
    /\ prev.category # Category(pret)

\* C18 as claimed: failures of two categories have two error kinds
C18_DistinctKinds == TwoCategories => prev.kind # pret.kind

\* what a caller can tell an error by: its variant and its text
Signature(h) == <<h.kind, h.msg, h.text>>

\* C18, amended: failures of two categories differ in their variant or in
\* their text, and a failure to parse the document is ServerProtocol
\* "Failed to parse server response: " with the parser's diagnostic
C18_Distinguishable ==
    /\ TwoCategories => Signature(prev) # Signature(Held(pret))
    /\ (pimpl = "mod" /\ pret.tag = "Err" /\ Category(pret) = "json") =>
          /\ pret.kind = "ServerProtocol"
          /\ pret.msg = "Failed to parse server response: "
          /\ pret.source.tag = "Err"
          /\ pret.source.msg # ""

\* a failed resolution, then a failed connect
C18_Witness ==
    /\ TwoCategories
    /\ prev.category = "resolution"
    /\ Category(pret) = "connection"

\* a framing error after a failure to parse
C18_FramingReached ==
    /\ TwoCategories
    /\ prev.category = "json"
    /\ Category(pret) = "framing"

Resolved == Len(ops) >= 1

\* C19 as claimed: an address without a colon does not fail for its missing
\* port, and what it resolves to has port 25565
C19_DefaultPort ==
    (Resolved /\ NoColon(address)) =>
       /\ ~(lookup.tag = "Err" /\ lookup.msg = "invalid socket address")
       /\ lookup.tag = "Ok" => \A i \in 1..Len(lookup.val) : lookup.val[i].port = 25565

\* C19, amended: an address without a colon gets no default port:
\* to_socket_addrs fails with "invalid socket address" and ping_server
\* returns the error of the resolve step without a connection
C19_NoDefaultPort ==
    (Resolved /\ NoColon(address)) =>
       /\ lookup = Err("InvalidInput", "invalid socket address")
       /\ step = "returned"
       /\ pret.tag = "Err"
       /\ pret.at = "resolve"
       /\ ~has_stream
       /\ ops = <<"to_socket_addrs">>

\* ping_server("localhost") has returned
C19_Witness ==
    /\ address = <<108, 111, 99, 97, 108, 104, 111, 115, 116>>
    /\ step = "returned"

\* the resolve step of the call gave no address
ResolveFailed == lookup.tag = "Err" \/ (lookup.tag = "Ok" /\ lookup.val = <<>>)

\* C20: for an address without ':port', or a host that does not resolve,
\* ping_server returns an error from the resolve step: nothing is connected
\* and nothing is written
C20_ResolveFailure ==
    (Resolved /\ (NoColon(address) \/ ResolveFailed)) =>
       /\ step = "returned"
       /\ pret.tag = "Err"
       /\ pret.at = "resolve"
       /\ ~has_stream
       /\ sent = <<>>
       /\ ops = <<"to_socket_addrs">>

\* ping_server("invalid-address-no-port") has returned
C20_Witness ==
    /\ Len(address) = 23
    /\ NoColon(address)
    /\ step = "returned"
    /\ pret.tag = "Err"

\* the host of "mc:25565" did not resolve
C20_UnresolvedReached ==
    /\ ~NoColon(address)
    /\ lookup.tag = "Err"
    /\ lookup.msg = "failed to lookup address information"
    /\ step = "returned"

\* C24 as claimed: no call of ping_server, of either file, on any path,
\* writes to standard error
C24_NoOutput == stderr = <<>>

\* ping_server of mc_server/mod.rs alone has run, through to Ok, and
\* standard error is empty
C24_ModSilent ==
    /\ pimpl = "mod"
    /\ calls = 1
    /\ step = "returned"
    /\ pret.tag = "Ok"
    /\ stderr = <<>>

\* the values the first byte of a response takes
PacketIds == {0, 1, 5, 127, 128, 255}

\* read_packet has returned a response
HasResponse == Count(ops, "read_packet") = 1 /\ step \in {"parse", "returned"}

\* C25 as claimed: whatever the server sends, a call of ping_server
\* (mc_server/mod.rs) that reads the response ends with Ok or Err: it does
\* not panic, on a frame of length 0 or of negative length either
C25_NeverAborts ==
    (pimpl = "mod" /\ Count(ops, "read_packet") = 1) => pret.tag # "Panic"

\* a frame of length 0 made the call panic
C25_EmptyFrameReached ==
    /\ pimpl = "mod"
    /\ step = "returned"
    /\ pret.tag = "Panic"
    /\ pret.at = "parse"
    /\ response = <<>>

\* C26: the first byte of the response is skipped whatever it is: the
\* call ends as it would with any other first byte
C26_PacketIdIgnored ==
    (HasResponse /\ response # <<>>) =>
       /\ \A b \in PacketIds, oc \in BOOLEAN :
              parse_response(pimpl, <<b>> \o Tail(response), oc)
                 = parse_response(pimpl, response, oc)
       /\ step = "returned" =>
              \A b \in PacketIds : \E oc \in BOOLEAN :
                 [pret EXCEPT !.at = ""]
                    = parse_response(pimpl, <<b>> \o Tail(response), oc)

\* a status came back under packet id 5
C26_Witness ==
    /\ step = "returned"
    /\ pimpl = "mod"
    /\ response # <<>>
    /\ response[1] = 5
    /\ pret.tag = "Ok"
    /\ pret.val = StatusValue

-----------------------------------------------------------------------------
(* Properties of calls of ping_server at the same time *)

\* s is a suffix of w
IsSuffixOf(s, w) == Len(s) <= Len(w) /\ s = SubSeq(w, Len(w) - Len(s) + 1, Len(w))

\* C23: calls of ping_server that run at the same time do not touch each
\* other: a call that has returned has returned what the same call returns
\* when it runs alone against the same resolver, network and server bytes;
\* every connection belongs to one call, the call that made it, and every
\* call has at most one; what is written on a connection is the handshake
\* and the status request of its own call and nothing else; what is left to
\* read on it is an end of the bytes its own server sends
C23_Independent ==
    /\ \A i \in Pings :
           pings[i].step = "returned" => pings[i].ret = ping_server(pings[i].inp)
    /\ \A c, d \in 1..Len(net) : c # d => net[c].owner # net[d].owner
    /\ \A i \in Pings :
           pings[i].stream # 0 => net[pings[i].stream].owner = i
    /\ \A c \in 1..Len(net) :
           LET own == pings[net[c].owner]
           IN  /\ IsPrefix(net[c].written,
                             <<packet_of(build_handshake(net[c].to, own.inp.address)),
                               packet_of(status_request)>>)
               /\ IsSuffixOf(net[c].inbound \o net[c].script, own.inp.reply)
               /\ net[c].to = own.addr

\* two calls to the same address have returned the status, the second call
\* having connected before the first
C23_Witness ==
    /\ \A i \in {1, 2} :
           /\ pings[i].step = "returned"
           /\ pings[i].ret.tag = "Ok"
           /\ pings[i].inp.address = McAddress
    /\ Len(net) >= 2
    /\ net[1].owner = 2
    /\ net[2].owner = 1

\* two calls read from their connections to the same address at the same
\* time, one in the middle of its payload
C23_BothReading ==
    /\ pings[1].step = "read_payload"
    /\ pings[2].step = "read_varint"
    /\ pings[1].addr = pings[2].addr
    /\ net[pings[1].stream].state = "open"
    /\ net[pings[2].stream].state = "open"
    /\ net[pings[2].stream].inbound # <<>>

\* one call has returned an error while the other returned the status
C23_MixedReached ==
    /\ pings[1].step = "returned" /\ pings[1].ret.tag = "Err"
    /\ pings[2].step = "returned" /\ pings[2].ret.tag = "Ok"

-----------------------------------------------------------------------------
(* Properties of the /online command *)

\* the handler has matched on `result`
Matched == ostep = "returned" /\ oresult # NoRet

\* C27: ping_server runs on a thread of the blocking pool and never on the
\* event loop, which other tasks can use meanwhile; with the task over, the
\* handler calls context.say once: with the status when ping_server
\* returned one, with "Failed to connect to server: " and the error when it
\* returned an error, with "Error: " and the JoinError when the task
\* panicked or was cancelled; what the handler returns is Ok, or the error
\* of defer or say, and never the failure of ping_server
C27_OnlineReplies ==
    /\ ran_on \in {"none", "blocking"}
    /\ task = "running" => ostep = "await" /\ ~LoopHeld
    /\ Len(says) <= 1
    /\ says # <<>> => Matched
    /\ Matched =>
          /\ Len(says) = 1
          /\ says[1].message.kind =
                (CASE oresult.tag = "Ok" -> "Minecraft Server Status"
                   [] oresult.tag = "Err" -> "Failed to connect to server: "
                   [] oresult.tag = "JoinErr" -> "Error: ")
          /\ oresult.tag # "Ok" => says[1].message.e = oresult
          /\ oret = says[1].io
          /\ oret.tag = "Err" => oret.kind = "Discord"
    /\ (ostep = "returned" /\ ~Matched) =>
          oret.tag = "Err" /\ oret.kind = "Discord" /\ task = "none"

\* ping_server failed in the task while other tasks had turns on the event
\* loop; the handler said so and returned Ok
C27_Witness ==
    /\ Matched
    /\ oresult.tag = "Err"
    /\ oresult.kind = "ServerProtocol"
    /\ others > 0
    /\ says[1].io.tag = "Ok"
    /\ oret.tag = "Ok"

\* the task panicked and the handler said "Error: "
C27_PanicReached ==
    /\ Matched
    /\ task = "panicked"
    /\ says[1].message.kind = "Error: "
    /\ oret.tag = "Ok"

\* a status with players in its sample was said
C27_StatusReached ==
    /\ Matched
    /\ oresult.tag = "Ok"
    /\ says[1].message.player_list.players = <<65, 108, 44, 32, 66, 111>>

\* another task had its turn while ping_server was running
C27_LoopFreeReached == task = "running" /\ others > 0

-----------------------------------------------------------------------------
(* Properties of the /backup command *)

\* the invocations that passed the rate-limit gate: they have set `now`
Passed == {i \in Invocations : backups[i].now.some}

\* the invocations by a user that passed the gate
PassedBy(u) == {i \in Passed : backups[i].user = u}

\* the invocations the gate rejected
Rejected ==
    {i \in Invocations :
        backups[i].said.kind \in {"cooldown", "globally on cooldown"}}

\* an invocation is between taking the first lock and dropping its guards
InGate(i) ==
    backups[i].at \in {"check_user", "lock_global", "check_global", "update",
                       "say_cooldown"}

\* the latest `now` among some invocations that passed the gate
Latest(S) ==
    IF S = {} THEN NoInstant
    ELSE SomeInstant(CHOOSE m \in {backups[i].now.at : i \in S} :
                        \A i \in S : backups[i].now.at <= m)

\* C28: however the invocations of /backup interleave, any two that passed
\* the gate did so at least GLOBAL_COOLDOWN apart, and at least
\* COOLDOWN_DURATION apart when they are by the same user; at most one
\* invocation at a time is between taking the lock of the map and dropping
\* its guards, and the one about to set the timestamps is off both cooldowns
C28_RateLimit ==
    /\ \A i, j \in Passed :
          (i # j /\ backups[i].now.at <= backups[j].now.at) =>
             /\ backups[j].now.at - backups[i].now.at >= GLOBAL_COOLDOWN
             /\ backups[i].user = backups[j].user =>
                   backups[j].now.at - backups[i].now.at >= COOLDOWN_DURATION
    /\ \A i, j \in Invocations : (InGate(i) /\ InGate(j)) => i = j
    /\ \A i \in Invocations :
          backups[i].at = "update" =>
             /\ ~on_cooldown(last_global_backup_time, GLOBAL_COOLDOWN)
             /\ ~on_cooldown(last_backup_time[backups[i].user], COOLDOWN_DURATION)

\* the same user passed the gate twice, the second time 24 hours after the
\* first
C28_Witness ==
    \E i, j \in Passed :
        /\ backups[i].user = backups[j].user
        /\ backups[j].now.at - backups[i].now.at = COOLDOWN_DURATION

\* an invocation waits for the lock of the map while another holds both locks
C28_WaitingReached ==
    \E i, j \in Invocations :
        backups[i].at = "lock_map" /\ backups[j].at = "update"

\* another user was rejected a second before the end of the global cooldown
C28_GlobalRejectReached ==
    \E i \in Passed : \E j \in Rejected :
        /\ backups[i].user # backups[j].user
        /\ backups[j].said = [kind |-> "globally on cooldown", hours |-> 0,
                              minutes |-> 0]

\* the same user was rejected a second before the end of their cooldown
C28_UserRejectReached ==
    \E i \in Passed : \E j \in Rejected :
        /\ backups[i].user = backups[j].user
        /\ backups[j].said = [kind |-> "cooldown", hours |-> 0, minutes |-> 0]

\* C29: the timestamps are those of the invocations that passed both checks:
\* the timestamp of a user is the `now` of the user's latest invocation that
\* passed, the global one the `now` of the latest that passed, and neither is
\* set while none has passed; an invocation has set its `now` before it
\* defers, looks up or publishes, keeps it when no backup is found or
\* publishing fails, and a rejected invocation has set none
C29_Timestamps ==
    /\ \A u \in UserIds : last_backup_time[u] = Latest(PassedBy(u))
    /\ last_global_backup_time = Latest(Passed)
    /\ \A i \in Invocations :
          /\ (backups[i].at \in {"defer", "find", "publish"} \/ backups[i].found # "")
                => i \in Passed
          /\ i \in Rejected => i \notin Passed
          /\ (backups[i].at = "returned" /\ i \notin Rejected) => i \in Passed

\* an invocation found no backup and its timestamps stand, and a later
\* invocation by the same user was rejected by them
C29_Witness ==
    \E i \in Passed : \E j \in Rejected :
        /\ backups[i].at = "returned"
        /\ backups[i].found = "None"
        /\ backups[j].user = backups[i].user
        /\ backups[j].at = "returned"
        /\ last_backup_time[backups[i].user] = backups[i].now
        /\ last_global_backup_time = backups[i].now

\* publishing failed and the timestamps stand
C29_PublishFailedReached ==
    \E i \in Passed :
        /\ backups[i].ret.kind = "Publish"
        /\ last_global_backup_time = backups[i].now

\* a user passed a second time and the timestamps are the later ones
C29_SecondPassReached ==
    \E i, j \in Passed :
        /\ i # j
        /\ backups[i].user = backups[j].user
        /\ backups[i].now.at < backups[j].now.at
        /\ last_backup_time[backups[j].user] = backups[j].now

-----------------------------------------------------------------------------
(* Properties of the player repository *)

\* the table before the k-th call
RowsBefore(k) == IF k = 1 THEN <<>> ELSE history[k - 1].rows

\* the calls among the first k that changed what is stored for a UUID: the
\* upserts and deletes of it that returned Ok
Writes(k, uuid) ==
    {j \in 1..k :
        /\ history[j].op \in {"upsert_player", "delete_player"}
        /\ history[j].uuid = uuid
        /\ history[j].ret.tag = "Ok"}

\* the player the first k calls leave for a UUID: that of the latest upsert
\* with no later delete
Expected(k, uuid) ==
    IF Writes(k, uuid) = {} THEN NoPlayer
    ELSE LET last == CHOOSE j \in Writes(k, uuid) : \A i \in Writes(k, uuid) : i <= j
         IN  IF history[last].op = "upsert_player"
             THEN [some |-> TRUE, uuid |-> uuid, username |-> history[last].username]
             ELSE NoPlayer

\* the rows stored for a UUID
RowsOf(rows, uuid) == {i \in 1..Len(rows) : rows[i].mc_uuid = uuid}

\* C30: the table holds at most one row per UUID; a get_player_by_uuid that
\* returns Ok returns the player of the latest upsert of the UUID that no
\* later delete of it followed, None without one, and so would a get now; an
\* upsert of a stored UUID leaves the number of rows and every other row as
\* they were and sets the username; a delete of a UUID that is not stored
\* returns Ok and leaves the table as it was
C30_Repository ==
    /\ \A uuid \in Uuids : Cardinality(RowsOf(minecraft_users, uuid)) <= 1
    /\ \A uuid \in Uuids :
          select_by_uuid(minecraft_users, uuid) = Expected(Len(history), uuid)
    /\ \A k \in 1..Len(history) :
          LET made == history[k]
              before == RowsBefore(k)
          IN  /\ (made.op = "get_player_by_uuid" /\ made.ret.tag = "Ok") =>
                    made.ret.val = Expected(k - 1, made.uuid)
              /\ (made.op = "upsert_player" /\ made.ret.tag = "Ok"
                     /\ conflict(before, made.uuid)) =>
                    /\ Len(made.rows) = Len(before)
                    /\ \A i \in 1..Len(before) :
                          made.rows[i] =
                             IF before[i].mc_uuid = made.uuid
                             THEN [mc_uuid |-> made.uuid,
                                   mc_username |-> made.username]
                             ELSE before[i]
              /\ (made.op = "delete_player" /\ ~conflict(before, made.uuid)
                     /\ made.ret \notin DatabaseErrors) =>
                    made.ret.tag = "Ok" /\ made.rows = before
              /\ made.ret.tag # "Ok" => made.rows = before

\* a stored UUID was upserted with another username, and a get returned the
\* new one
C30_Witness ==
    /\ Len(history) = 3
    /\ history[1].op = "upsert_player" /\ history[1].ret.tag = "Ok"
    /\ history[2].op = "upsert_player" /\ history[2].ret.tag = "Ok"
    /\ history[2].uuid = history[1].uuid
    /\ history[2].username # history[1].username
    /\ history[3].op = "get_player_by_uuid"
    /\ history[3].uuid = history[1].uuid
    /\ history[3].ret.tag = "Ok"
    /\ history[3].ret.val.username = history[2].username
    /\ Len(minecraft_users) = 1

\* a UUID that is not stored was deleted while another is stored
C30_DeleteAbsentReached ==
    /\ Len(history) = 2
    /\ history[1].op = "upsert_player" /\ history[1].ret.tag = "Ok"
    /\ history[2].op = "delete_player" /\ history[2].ret.tag = "Ok"
    /\ history[2].uuid # history[1].uuid
    /\ Len(minecraft_users) = 1

\* a get after upsert and delete of the UUID returned None
C30_DeletedReached ==
    /\ Len(history) = 3
    /\ history[1].op = "upsert_player" /\ history[1].ret.tag = "Ok"
    /\ history[2].op = "delete_player" /\ history[2].ret.tag = "Ok"
    /\ history[2].uuid = history[1].uuid
    /\ history[3].op = "get_player_by_uuid" /\ history[3].uuid = history[1].uuid
    /\ history[3].ret = Ok(NoPlayer)

-----------------------------------------------------------------------------
(* Properties of the status document *)

\* a document is being held
HasDoc == doc # <<>>

\* doc is an object with the three members of a status, each once, and
\* "version" and "players" are objects with their members
DocumentedShape ==
    /\ HasDoc
    /\ doc.t = "obj"
    /\ Len(doc.items) = 3
    /\ \A k \in {"version", "players", "description"} : has_member(doc.items, k)
    /\ member(doc.items, "version").t = "obj"
    /\ member(doc.items, "players").t = "obj"

DocVersion == member(doc.items, "version").items

DocPlayers == member(doc.items, "players").items

DocDescription == member(doc.items, "description")

\* the sample is left out, or is an array of players with a name and an id
SampleAsDocumented ==
    has_member(DocPlayers, "sample") =>
       LET s == member(DocPlayers, "sample")
       IN  /\ s.t = "arr"
           /\ \A i \in 1..Len(s.items) :
                  /\ s.items[i].t = "obj"
                  /\ has_member(s.items[i].items, "name")
                  /\ has_member(s.items[i].items, "id")

\* the three integers of the document
DocInts ==
    <<member(DocVersion, "protocol").n, member(DocPlayers, "max").n,
      member(DocPlayers, "online").n>>

\* the description is a string, or an object whose only member is a string
\* "text"
DescriptionAsDocumented ==
    \/ DocDescription.t = "str"
    \/ /\ DocDescription.t = "obj"
       /\ Len(DocDescription.items) = 1
       /\ DocDescription.items[1].k = "text"
       /\ DocDescription.items[1].v.t = "str"

\* the plain text of the description of the document
DocText ==
    IF DocDescription.t = "str" THEN DocDescription.s
    ELSE DocDescription.items[1].v.s

\* C21: a status whose description is a JSON string or an object with a
\* "text" member (the rest of the document being one the client accepts)
\* parses, and Description::text returns the string itself, or the value of
\* "text"
C21_DescriptionShapes ==
    (/\ DocumentedShape
     /\ SampleAsDocumented
     /\ DescriptionAsDocumented
     /\ \A i \in 1..3 : DocInts[i] \in 0..U16Max) =>
        /\ parsed.tag = "Ok"
        /\ parsed.val.description.text = DocText
        /\ parsed.val.description.shape =
              (IF DocDescription.t = "str" THEN "String" ELSE "Object")
        /\ shown # NoShown => shown = DocText

\* {"text": "Another Server"} was parsed and text() gave "Another Server"
C21_Witness ==
    /\ DocumentedShape
    /\ DocDescription.t = "obj"
    /\ parsed.tag = "Ok"
    /\ shown = AnotherServer

\* "A Server" was parsed and text() gave "A Server"
C21_StringReached ==
    /\ DocumentedShape
    /\ DocDescription.t = "str"
    /\ parsed.tag = "Ok"
    /\ shown = AServer

\* C22 as claimed: a document of the documented shape, its three integers
\* anywhere in the signed 32-bit range, parses, and the status has those
\* integers
C22_IntegersKept ==
    (/\ DocumentedShape
     /\ SampleAsDocumented
     /\ DescriptionAsDocumented
     /\ \A i \in 1..3 : DocInts[i] \in I32Min..I32Max) =>
        /\ parsed.tag = "Ok"
        /\ <<parsed.val.version.protocol, parsed.val.players.max,
             parsed.val.players.online>> = DocInts

\* a document of the documented shape with an integer above 65535 was
\* refused
C22_Refused ==
    /\ DocumentedShape
    /\ SampleAsDocumented
    /\ DescriptionAsDocumented
    /\ DocInts = <<763, U16Max + 1, 3>>
    /\ parsed.tag = "Err"

====
